---- MODULE Spec2Model ----
(***************************************************************************)
(* The flow-run agent of src/src/prefect/agent.py (class OrionAgent) as a  *)
(* state machine: the agent object's fields, the calls of start, shutdown   *)
(* and get_and_submit_flow_runs that are in progress (each suspended at one *)
(* of its awaits), the submit_run coordinators running on the agent's task  *)
(* group, and the orchestration server's view of each flow run; with it   *)
(* the override loop of get_infrastructure (resolver) and the run of a     *)
(* KubernetesJob infrastructure (job), each also specified on its own.     *)
(***************************************************************************)
EXTENDS Integers, Sequences, FiniteSets, Bags, TLC

\* ------------------------------------------------------------------ bounds
MaxFetch == 2
MaxTime == 1
MaxOverrides == 2

\* --------------------------------------------------------------- constants
\* now.add(seconds=30); limit=10; the value of PREFECT_AGENT_PREFETCH_SECONDS.
CacheSeconds == 30
FetchLimit == 10
PrefetchSetting == 10

Agents == {"a1", "a2"}
Runs == {"r1", "r2"}
TickIds == {1, 2}
None == "None"
NoTime == -1
Excs == {"E1", "E2"}

VARIABLES agent, life, ticks, coords, workloads, server, now, hist, resolver,
          job

vars ==
    <<agent, life, ticks, coords, workloads, server, now, hist, resolver, job>>

\* ------------------------------------------------------------ construction
\* OrionAgent.__init__: the fields of a fresh agent for the given arguments.
\* prefetch_seconds (an int, or None) is the sequence of the seconds given:
\* << >> stands for None.
NewAgent(work_queues, prefetch_seconds, default_infrastructure, document_id) ==
    [ work_queues |-> work_queues,
      prefetch_seconds |-> prefetch_seconds,
      submitting_flow_run_ids |-> {},
      started |-> FALSE,
      task_group |-> None,
      client |-> None,
      work_queue_cache_expiration |-> NoTime,
      work_queue_cache |-> << >>,
      default_infrastructure |->
          IF default_infrastructure # None THEN default_infrastructure
          ELSE IF document_id # None THEN None ELSE "Process",
      default_infrastructure_document_id |->
          IF default_infrastructure # None THEN None ELSE document_id ]

\* A task that has not been called yet.
IdleTick ==
    [ pc |-> "idle", before |-> NoTime, mode |-> None, qi |-> 0,
      snap |-> << >>, frozen |-> FALSE, queue |-> None, runs |-> << >> ]

\* A submit_run task as start_soon creates it: its first await is the claim.
NewCoordinator(flow_run) ==
    [ run |-> flow_run, pc |-> "claim", claim |-> None, doc |-> None,
      exc |-> None, proposal |-> None ]

\* ------------------------------------------------------------------ helpers
Range(s) == {s[i] : i \in DOMAIN s}

SeqToBag(s) == [x \in Range(s) |-> Cardinality({i \in DOMAIN s : s[i] = x})]

One(x) == SetToBag({x})

SeqsUpTo(S, n) == UNION {[1..k -> S] : k \in 0..n}

InProgress(tk) == tk.pc \in {"read", "create", "fetch"}

StartInProgress(a) == life[a].start \in {"client_enter", "save"}

ShutdownInProgress(a) == life[a].shutdown \in {"wait_tg", "wait_client"}

\* A task group on which start_soon and start succeed.
Active(task_group) == task_group \in {"open", "cancelled", "crashed"}

\* A task group whose cancel scope has been cancelled.
Cancelled(task_group) == task_group \in {"cancelled", "crashed"}

\* ------------------------------------------------------------------- start
\* start() up to its first await, client.__aenter__().
StartCall(a) ==
    /\ ~StartInProgress(a) /\ ~ShutdownInProgress(a)
    /\ agent[a].task_group = None
    /\ agent' = [agent EXCEPT ![a].started = TRUE,
                              ![a].task_group = "created",
                              ![a].client = "created"]
    /\ life' = [life EXCEPT ![a].start = "client_enter"]
    /\ UNCHANGED <<ticks, coords, workloads, server, now, hist, resolver, job>>

\* client.__aenter__() returns or raises; on return the task group is entered
\* and an unsaved default infrastructure is saved (the next await).
StartClientEntered(a) ==
    /\ life[a].start = "client_enter"
    /\ \E ok \in BOOLEAN :
         IF ok
         THEN /\ agent' = [agent EXCEPT ![a].client = "connected",
                                        ![a].task_group = "open"]
              /\ life' = [life EXCEPT ![a].start =
                     IF /\ agent[a].default_infrastructure # None
                        /\ agent[a].default_infrastructure_document_id = None
                     THEN "save" ELSE "done"]
         ELSE /\ life' = [life EXCEPT ![a].start = "raised"]
              /\ UNCHANGED agent
    /\ UNCHANGED <<ticks, coords, workloads, server, now, hist, resolver, job>>

\* default_infrastructure._save(is_anonymous=True) returns an id or raises.
StartSaved(a) ==
    /\ life[a].start = "save"
    /\ \E ok \in BOOLEAN :
         IF ok
         THEN /\ agent' = [agent EXCEPT
                     ![a].default_infrastructure_document_id = "anon"]
              /\ life' = [life EXCEPT ![a].start = "done"]
         ELSE /\ life' = [life EXCEPT ![a].start = "raised"]
              /\ UNCHANGED agent
    /\ UNCHANGED <<ticks, coords, workloads, server, now, hist, resolver, job>>

\* ---------------------------------------------------------------- shutdown
\* Mutant of ShutdownReset: the work-queue cache is not reset.
ShutdownResetKeepsCache(ag) ==
    [ag EXCEPT !.task_group = None,
               !.client = None,
               !.submitting_flow_run_ids = {}]

\* The fields shutdown() resets after both context managers have exited.
ShutdownReset(ag) ==
    [ag EXCEPT !.task_group = None,
               !.client = None,
               !.submitting_flow_run_ids = {},
               !.work_queue_cache_expiration = NoTime,
               !.work_queue_cache = << >>]

\* A tick iterating the cache list keeps the list object shutdown() replaces.
KeepOldCache(tk, old) ==
    IF InProgress(tk) /\ tk.mode = "cached" /\ ~tk.frozen
    THEN [tk EXCEPT !.snap = old, !.frozen = TRUE]
    ELSE tk

\* shutdown(*exc_info) up to its first await, task_group.__aexit__(): without
\* a task group, or with one that was never entered, the call raises.
ShutdownCall(a) ==
    /\ ~StartInProgress(a) /\ ~ShutdownInProgress(a)
    /\ \E with_exc \in BOOLEAN :
         /\ agent' = [agent EXCEPT
                ![a].started = FALSE,
                ![a].task_group =
                    IF with_exc /\ @ = "open" THEN "cancelled" ELSE @]
         /\ life' = [life EXCEPT ![a].shutdown =
                IF Active(agent[a].task_group) THEN "wait_tg" ELSE "raised"]
    /\ UNCHANGED <<ticks, coords, workloads, server, now, hist, resolver, job>>

\* task_group.__aexit__() returns once no child task is left; it raises the
\* exception of a crashed child, which ends shutdown(). Otherwise the next
\* await is client.__aexit__().
ShutdownTaskGroupExited(a) ==
    /\ life[a].shutdown = "wait_tg"
    /\ coords[a] = EmptyBag /\ workloads[a] = EmptyBag
    /\ agent' = [agent EXCEPT ![a].task_group = "closed"]
    /\ life' = [life EXCEPT ![a].shutdown =
           IF agent[a].task_group = "crashed" THEN "raised" ELSE "wait_client"]
    /\ UNCHANGED <<ticks, coords, workloads, server, now, hist, resolver, job>>

\* client.__aexit__() returns (and the fields are reset) or raises.
ShutdownClientExited(a) ==
    /\ life[a].shutdown = "wait_client"
    /\ \E ok \in BOOLEAN :
         IF ok
         THEN /\ agent' = [agent EXCEPT ![a] = ShutdownReset(agent[a])]
              /\ ticks' = [ticks EXCEPT ![a] = [t \in TickIds |->
                     KeepOldCache(ticks[a][t], agent[a].work_queue_cache)]]
              /\ life' = [life EXCEPT ![a].shutdown = "done"]
         ELSE /\ life' = [life EXCEPT ![a].shutdown = "raised"]
              /\ UNCHANGED <<agent, ticks>>
    /\ UNCHANGED <<coords, workloads, server, now, hist, resolver, job>>

\* ------------------------------------------------- get_and_submit_flow_runs
\* seconds=self.prefetch_seconds or PREFECT_AGENT_PREFETCH_SECONDS.value():
\* the setting is used for None and for 0.
PrefetchSeconds(prefetch_seconds) ==
    IF prefetch_seconds = << >> \/ prefetch_seconds[1] = 0
    THEN PrefetchSetting ELSE prefetch_seconds[1]

\* Mutant of CacheLive: the cache is never taken as live.
CacheLiveNever(expiration, t) == FALSE

\* (self._work_queue_cache_expiration or now) > now
CacheLive(expiration, t) == expiration # NoTime /\ expiration > t

\* Mutant of AlreadySubmitting: no deduplication.
AlreadySubmittingNever(id, submitting) == FALSE

\* if flow_run.id in self.submitting_flow_run_ids: continue
AlreadySubmitting(id, submitting) == id \in submitting

\* s backwards.
Reverse(s) == [i \in DOMAIN s |-> s[Len(s) + 1 - i]]

\* Mutant of SubmitLoop: the runs are handed to start_soon from the last to
\* the first.
RECURSIVE SubmitLoopBackwards(_, _, _, _, _)
SubmitLoopBackwards(runs, i, submitting, spawned, task_group) ==
    IF i > Len(runs)
    THEN [submitting |-> submitting, spawned |-> Reverse(spawned),
          raised |-> FALSE]
    ELSE IF AlreadySubmitting(runs[i], submitting)
    THEN SubmitLoopBackwards(runs, i + 1, submitting, spawned, task_group)
    ELSE IF ~Active(task_group)
    THEN [submitting |-> submitting \cup {runs[i]}, spawned |-> spawned,
          raised |-> TRUE]
    ELSE SubmitLoopBackwards(runs, i + 1, submitting \cup {runs[i]},
                             Append(spawned, runs[i]), task_group)

\* The loop over submittable_runs from index i: each run not in the set is
\* added to it and then handed to task_group.start_soon, which raises when
\* there is no active task group (the identifier has been added by then).
RECURSIVE SubmitLoop(_, _, _, _, _)
SubmitLoop(runs, i, submitting, spawned, task_group) ==
    IF i > Len(runs)
    THEN [submitting |-> submitting, spawned |-> spawned, raised |-> FALSE]
    ELSE IF AlreadySubmitting(runs[i], submitting)
    THEN SubmitLoop(runs, i + 1, submitting, spawned, task_group)
    ELSE IF ~Active(task_group)
    THEN [submitting |-> submitting \cup {runs[i]}, spawned |-> spawned,
          raised |-> TRUE]
    ELSE SubmitLoop(runs, i + 1, submitting \cup {runs[i]},
                    Append(spawned, runs[i]), task_group)

\* The end of a tick, once get_work_queues is exhausted: the submit loop and
\* the return of submittable_runs (tk.runs; the task keeps only how the call
\* ended).
FinishTick(ag, tk) ==
    LET r == SubmitLoop(tk.runs, 1, ag.submitting_flow_run_ids, << >>,
                        ag.task_group)
    IN  [ ag |-> [ag EXCEPT !.submitting_flow_run_ids = r.submitting],
          tick |-> [IdleTick EXCEPT
                       !.pc = IF r.raised THEN "raised" ELSE "returned"],
          spawned |-> r.spawned, returned |-> tk.runs, yielded |-> << >> ]

\* Mutant of SkipQueue: a paused queue is fetched like any other.
SkipQueueNever(work_queue) == FALSE

\* if work_queue.is_paused: (log) else: (fetch the queue's runs)
SkipQueue(work_queue) == work_queue.is_paused

\* The list a tick in cached mode iterates.
CacheView(ag, tk) == IF tk.frozen THEN tk.snap ELSE ag.work_queue_cache

\* NextQueue: get_work_queues resumes after a yield (or a failed create) and
\* runs to its next await or yield. QueueBody: the body of the async for
\* loop for a yielded queue, up to its await of get_runs_in_work_queue. The
\* outcome names the queues yielded on the way (yielded).
RECURSIVE NextQueue(_, _), QueueBody(_, _, _)
NextQueue(ag, tk) ==
    IF tk.mode = "cached"
    THEN IF tk.qi > Len(CacheView(ag, tk))
         THEN FinishTick(ag, tk)
         ELSE QueueBody(ag, [tk EXCEPT !.qi = @ + 1], CacheView(ag, tk)[tk.qi])
    ELSE IF tk.qi >= Len(ag.work_queues)
         THEN FinishTick(ag, tk)
         ELSE [ ag |-> ag,
                tick |-> [tk EXCEPT !.pc = "read", !.qi = @ + 1,
                                    !.queue = None],
                spawned |-> << >>, returned |-> << >>, yielded |-> << >> ]

QueueBody(ag, tk, work_queue) ==
    LET r == IF SkipQueue(work_queue)
             THEN NextQueue(ag, tk)
             ELSE [ ag |-> ag,
                    tick |-> [tk EXCEPT !.pc = "fetch", !.queue = work_queue],
                    spawned |-> << >>, returned |-> << >>,
                    yielded |-> << >> ]
    IN  [r EXCEPT !.yielded = <<work_queue.name>> \o @]

\* get_work_queues from its start to its first await or yield.
GetWorkQueues(ag, tk, t) ==
    IF CacheLive(ag.work_queue_cache_expiration, t)
    THEN NextQueue(ag, [tk EXCEPT !.mode = "cached", !.qi = 1])
    ELSE NextQueue([ag EXCEPT !.work_queue_cache = << >>,
                              !.work_queue_cache_expiration = t + CacheSeconds],
                   [tk EXCEPT !.mode = "reload", !.qi = 0])

\* The agent, tick and coordinators after a step of tick t with outcome r.
TickResult(a, t, r) ==
    /\ agent' = [agent EXCEPT ![a] = r.ag]
    /\ ticks' = [ticks EXCEPT ![a][t] = r.tick]
    /\ coords' = [coords EXCEPT ![a] = @ (+) SeqToBag(
           [i \in DOMAIN r.spawned |-> NewCoordinator(r.spawned[i])])]

\* The history h with what a step of agent a's tick with outcome r did, when
\* the calls are logged: the answer of get_runs_in_work_queue that resumed
\* the tick (fetched), the start_soon calls in their order, and the list
\* returned.
Logged(h, a, r, fetched) ==
    IF ~h.logging THEN h
    ELSE [h EXCEPT !.log[a] = @ \o fetched
             \o [i \in DOMAIN r.spawned |->
                    [call |-> "start_soon", queue |-> None,
                     arg |-> <<r.spawned[i]>>]]
             \o (IF r.tick.pc = "returned"
                 THEN <<[call |-> "return", queue |-> None,
                         arg |-> r.returned]>>
                 ELSE << >>)]

\* The history h with the queues get_work_queues yielded to agent a's tick t
\* in a step with outcome r, when the yields are traced: a call that begins
\* notes whether it read the cache as live (view) and the expiration it read
\* or set (expiration).
Traced(h, a, t, r, view) ==
    IF ~h.tracing THEN h
    ELSE [h EXCEPT !.yields[a][t] =
             IF view = None
             THEN [@ EXCEPT !.names = @ \o r.yielded]
             ELSE [view |-> view,
                   expiration |-> r.ag.work_queue_cache_expiration,
                   names |-> r.yielded]]

\* The task slot a new call of get_and_submit_flow_runs runs in.
FreeTick(a, t) ==
    /\ ~InProgress(ticks[a][t])
    /\ \A u \in TickIds : u < t => InProgress(ticks[a][u])

\* get_and_submit_flow_runs() from the call to its first await (or its end).
BeginTick(a, t) ==
    /\ FreeTick(a, t)
    /\ IF ~agent[a].started
       THEN /\ ticks' = [ticks EXCEPT ![a][t] =
                   [IdleTick EXCEPT !.pc = "not_started"]]
            /\ UNCHANGED <<agent, coords, hist>>
       ELSE LET r == GetWorkQueues(agent[a],
                    [IdleTick EXCEPT !.before =
                        now + PrefetchSeconds(agent[a].prefetch_seconds)], now)
            IN  /\ TickResult(a, t, r)
                /\ hist' = Traced(Logged(
                       [hist EXCEPT
                           !.reloaded[a] =
                               IF CacheLive(
                                      agent[a].work_queue_cache_expiration, now)
                               THEN @ ELSE now,
                           !.log[a] = << >>],
                       a, r, << >>), a, t, r,
                       IF CacheLive(agent[a].work_queue_cache_expiration, now)
                       THEN "cached" ELSE "reload")
    /\ UNCHANGED <<life, workloads, server, now, resolver, job>>

\* client.read_work_queue_by_name(name) answers: the queue, ObjectNotFound
\* (create_work_queue is awaited next), or another error, which leaves
\* get_work_queues and the tick.
ReadWorkQueueReply(a, t, replies) ==
    /\ ticks[a][t].pc = "read"
    /\ \E reply \in replies :
         LET tk == ticks[a][t]
             wq == [name |-> agent[a].work_queues[tk.qi],
                    is_paused |-> reply = "found_paused"]
             r == QueueBody(
                      [agent[a] EXCEPT !.work_queue_cache = Append(@, wq)],
                      tk, wq)
         IN  CASE reply \in {"found", "found_paused"} ->
                    /\ TickResult(a, t, r)
                    /\ hist' = Traced(Logged(hist, a, r, << >>), a, t, r, None)
               [] reply = "not_found" ->
                    /\ ticks' = [ticks EXCEPT ![a][t].pc = "create"]
                    /\ UNCHANGED <<agent, coords, hist>>
               [] reply = "error" ->
                    /\ ticks' = [ticks EXCEPT ![a][t] =
                           [IdleTick EXCEPT !.pc = "raised"]]
                    /\ UNCHANGED <<agent, coords, hist>>
    /\ UNCHANGED <<life, workloads, server, now, resolver, job>>

ReadWorkQueueResponse(a, t) ==
    ReadWorkQueueReply(a, t, {"found", "found_paused", "not_found", "error"})

\* client.create_work_queue(name) answers: the new queue, or any error (the
\* queue is skipped).
CreateWorkQueueResponse(a, t) ==
    /\ ticks[a][t].pc = "create"
    /\ \E ok \in BOOLEAN :
         LET tk == ticks[a][t]
             wq == [name |-> agent[a].work_queues[tk.qi], is_paused |-> FALSE]
             r == IF ok
                  THEN QueueBody(
                      [agent[a] EXCEPT !.work_queue_cache = Append(@, wq)],
                      tk, wq)
                  ELSE NextQueue(agent[a], tk)
         IN  /\ TickResult(a, t, r)
             /\ hist' = Traced(Logged(hist, a, r, << >>), a, t, r, None)
    /\ UNCHANGED <<life, workloads, server, now, resolver, job>>

\* The longest list a call with limit=10 is answered with here.
FetchLength == IF MaxFetch < FetchLimit THEN MaxFetch ELSE FetchLimit

\* client.get_runs_in_work_queue(...) answers: a list of runs, which extends
\* submittable_runs, or ObjectNotFound or another error, which is logged.
GetRunsResponse(a, t) ==
    /\ ticks[a][t].pc = "fetch"
    /\ \E ok \in BOOLEAN :
       \E queue_runs \in IF ok THEN SeqsUpTo(Runs, FetchLength) ELSE {<< >>} :
         LET r == NextQueue(agent[a],
                      [ticks[a][t] EXCEPT !.runs = @ \o queue_runs])
         IN  /\ TickResult(a, t, r)
             /\ hist' = Traced(Logged(hist, a, r,
                    <<[call |-> "get_runs_in_work_queue",
                       queue |-> ticks[a][t].queue.name,
                       arg |-> queue_runs]>>), a, t, r, None)
    /\ UNCHANGED <<life, workloads, server, now, resolver, job>>

\* -------------------------------------------------------------- the server
\* The answers of propose_state(Pending()) for a run in the given state: the
\* state the server holds afterwards (the proposal is accepted from
\* Scheduled only, so one proposer per run is answered Pending), an Abort
\* signal, or a failed call.
ServerProposePending(state) ==
    IF state = "SCHEDULED" THEN {"PENDING", "abort", "error"}
    ELSE IF state = "PENDING" THEN {"abort", "error"}
    ELSE {state, "abort", "error"}

\* The answers of propose_state(Failed(...)).
ServerProposeFailed(state) ==
    IF state = "PENDING" THEN {"FAILED", "abort", "error"}
    ELSE {"abort", "error"}

\* -------------------------------------------------------------- submit_run
\* Mutants of ProposePendingState: without the is_pending check, with an
\* Abort that does not stop the submission, with a failed call that does
\* not, and with no check at all.
ProposePendingStateAnyState(reply) ==
    IF reply = "abort" THEN FALSE
    ELSE IF reply = "error" THEN FALSE
    ELSE TRUE

ProposePendingStateAbortSubmits(reply) ==
    IF reply = "abort" THEN TRUE
    ELSE IF reply = "error" THEN FALSE
    ELSE reply = "PENDING"

ProposePendingStateErrorSubmits(reply) ==
    IF reply = "abort" THEN FALSE
    ELSE IF reply = "error" THEN TRUE
    ELSE reply = "PENDING"

ProposePendingStateAlways(reply) == TRUE

\* _propose_pending_state: whether the answer of the proposal lets the run
\* be submitted.
ProposePendingState(reply) ==
    IF reply = "abort" THEN FALSE
    ELSE IF reply = "error" THEN FALSE
    ELSE reply = "PENDING"

\* DataDocument.encode("cloudpickle", exc)
EncodeException(exc) == [encoding |-> "cloudpickle", blob |-> exc]

\* Mutant of FailedState: the payload does not hold the exception raised.
FailedStateWithoutException(exc) ==
    [ type |-> "FAILED", message |-> "Submission failed.",
      data |-> EncodeException("E1") ]

\* The state _propose_failed_state proposes.
FailedState(exc) ==
    [ type |-> "FAILED", message |-> "Submission failed.",
      data |-> EncodeException(exc) ]

\* deployment.infrastructure_document_id or
\* self.default_infrastructure_document_id
InfrastructureDocumentId(deployment_document_id, default_document_id) ==
    IF deployment_document_id # None THEN deployment_document_id
    ELSE default_document_id

\* A child task of the task group ends with an exception: the task group
\* cancels its scope and keeps the exception for __aexit__.
TaskCrashed(ag) == [ag EXCEPT !.task_group = "crashed"]

\* Mutant of RemoveAndEnd: submit_run ends without the remove.
RemoveAndEndKeeps(ag, flow_run) == ag

\* self.submitting_flow_run_ids.remove(flow_run.id), the last statement of
\* submit_run: KeyError when the identifier is not in the set.
RemoveAndEnd(ag, flow_run) ==
    IF flow_run \in ag.submitting_flow_run_ids
    THEN [ag EXCEPT !.submitting_flow_run_ids = @ \ {flow_run}]
    ELSE TaskCrashed(ag)

\* The coordinator is resumed by the answer to its Pending proposal; when it
\* may submit, its next await is read_deployment (in get_infrastructure).
ProposePendingResponse(a, c) ==
    /\ c.pc = "claim" /\ ~Cancelled(agent[a].task_group)
    /\ \E reply \in ServerProposePending(server[c.run]) :
         /\ server' = [server EXCEPT ![c.run] =
                IF reply = "PENDING" THEN "PENDING" ELSE @]
         /\ IF ProposePendingState(reply)
            THEN /\ coords' = [coords EXCEPT ![a] = (@ (-) One(c)) (+)
                        One([c EXCEPT !.pc = "read_deployment",
                                      !.claim = reply])]
                 /\ UNCHANGED agent
            ELSE /\ coords' = [coords EXCEPT ![a] = @ (-) One(c)]
                 /\ agent' = [agent EXCEPT ![a] = RemoveAndEnd(@, c.run)]
    /\ UNCHANGED <<life, ticks, workloads, now, hist, resolver, job>>

\* read_deployment answers with the deployment or raises; the exception
\* leaves get_infrastructure and submit_run. The next await is
\* read_block_document.
ReadDeploymentResponse(a, c) ==
    /\ c.pc = "read_deployment" /\ ~Cancelled(agent[a].task_group)
    /\ \E ok \in BOOLEAN, deployment_document_id \in {None, "doc"} :
         IF ok
         THEN /\ coords' = [coords EXCEPT ![a] = (@ (-) One(c)) (+)
                     One([c EXCEPT !.pc = "read_block_document",
                                   !.doc = InfrastructureDocumentId(
                                       deployment_document_id,
                                       agent[a].default_infrastructure_document_id)])]
              /\ UNCHANGED agent
         ELSE /\ deployment_document_id = None
              /\ coords' = [coords EXCEPT ![a] = @ (-) One(c)]
              /\ agent' = [agent EXCEPT ![a] = TaskCrashed(@)]
    /\ UNCHANGED <<life, ticks, workloads, server, now, hist, resolver, job>>

\* ------------------------------------------------------ get_infrastructure
\* A block document's data: the paths that hold a mapping (<< >> is the data
\* itself) and the value at each other path.
BlockData ==
    [ maps |-> {<< >>, <<"env">>},
      leaves |-> (<<"image">> :> "img") @@ (<<"env", "A">> :> "1") ]

IsPrefix(p, q) == Len(p) <= Len(q) /\ SubSeq(q, 1, Len(p)) = p

\* Mutant of ApplyOverride: a missing intermediate field is created as an
\* empty mapping (data = data.setdefault(field, {})).
ApplyOverrideCreating(data, path, value) ==
    LET n == Len(path)
        between == {SubSeq(path, 1, k) : k \in 0..(n - 1)}
        kept == {q \in DOMAIN data.leaves :
                    ~IsPrefix(path, q) /\ q \notin between}
    IN  [ error |-> None,
          data |-> [ maps |-> {q \in data.maps : ~IsPrefix(path, q)}
                                \cup between,
                     leaves |-> [q \in kept \cup {path} |->
                         IF q = path THEN value ELSE data.leaves[q]] ] ]

\* One override: data = data[field] for all fields but the last, then
\* data[last] = value. A missing field is a KeyError, a field of a value
\* that is no mapping a TypeError; the last field is set whether or not the
\* mapping had it.
ApplyOverride(data, path, value) ==
    LET n == Len(path)
        bad == {k \in 0..(n - 1) : SubSeq(path, 1, k) \notin data.maps}
        first == CHOOSE k \in bad : \A j \in bad : k <= j
        kept == {q \in DOMAIN data.leaves : ~IsPrefix(path, q)}
    IN  IF bad # {}
        THEN [ error |-> IF SubSeq(path, 1, first) \in DOMAIN data.leaves
                         THEN "TypeError" ELSE "KeyError",
               data |-> data ]
        ELSE [ error |-> None,
               data |-> [ maps |-> {q \in data.maps : ~IsPrefix(path, q)},
                          leaves |-> [q \in kept \cup {path} |->
                              IF q = path THEN value ELSE data.leaves[q]] ] ]

\* The override loop of get_infrastructure about to run on infra_dict with
\* the given overrides: the dictionary, the overrides still to apply, the
\* error raised, the number of iterations made, and the dictionary before
\* and the override of the last iteration.
NewResolver(data, overrides) ==
    [ data |-> data, overrides |-> overrides, error |-> None,
      before |-> data, applied |-> 0,
      last |-> [path |-> << >>, value |-> None] ]

\* One iteration of the loop.
ResolveOverride ==
    /\ resolver.overrides # << >> /\ resolver.error = None
    /\ LET o == Head(resolver.overrides)
           r == ApplyOverride(resolver.data, o.path, o.value)
       IN  resolver' = [ data |-> r.data,
                         overrides |-> Tail(resolver.overrides),
                         error |-> r.error,
                         before |-> resolver.data,
                         applied |-> resolver.applied + 1, last |-> o ]
    /\ UNCHANGED <<agent, life, ticks, coords, workloads, server, now, hist,
                   job>>

\* for override, value in (deployment.infra_overrides or {}).items(): ...
RECURSIVE ApplyOverrides(_, _)
ApplyOverrides(data, overrides) ==
    IF overrides = << >> THEN [error |-> None, data |-> data]
    ELSE LET r == ApplyOverride(data, Head(overrides).path,
                                Head(overrides).value)
         IN  IF r.error # None THEN r
             ELSE ApplyOverrides(r.data, Tail(overrides))

\* The infra_overrides a deployment may carry.
OverrideChoices ==
    { << >>,
      <<[path |-> <<"image">>, value |-> "new"]>>,
      <<[path |-> <<"env", "A">>, value |-> "new"]>>,
      <<[path |-> <<"env", "B">>, value |-> "new"]>>,
      <<[path |-> <<"missing", "A">>, value |-> "new"]>>,
      <<[path |-> <<"image", "A">>, value |-> "new"]>>,
      <<[path |-> <<"env">>, value |-> "new"],
        [path |-> <<"env", "A">>, value |-> "new"]>> }

\* read_block_document answers with the document or raises (always for no
\* identifier); the overrides are applied and the block is rebuilt, either of
\* which may raise: every exception leaves submit_run. Otherwise the run is
\* handed to task_group.start(submit_flow_run, ...) and the coordinator
\* awaits the started handshake.
ReadBlockDocumentResponse(a, c) ==
    /\ c.pc = "read_block_document" /\ ~Cancelled(agent[a].task_group)
    /\ \E ok \in BOOLEAN, overrides \in OverrideChoices, rebuilt \in BOOLEAN :
         /\ c.doc = None => ~ok
         /\ IF /\ ok
               /\ ApplyOverrides(BlockData, overrides).error = None
               /\ rebuilt
            THEN /\ coords' = [coords EXCEPT ![a] = (@ (-) One(c)) (+)
                        One([c EXCEPT !.pc = "submit", !.doc = None])]
                 /\ hist' = [hist EXCEPT !.dispatched[a][c.run] = @ + 1]
                 /\ UNCHANGED agent
            ELSE /\ coords' = [coords EXCEPT ![a] = @ (-) One(c)]
                 /\ agent' = [agent EXCEPT ![a] = TaskCrashed(@)]
                 /\ UNCHANGED hist
    /\ UNCHANGED <<life, ticks, workloads, server, now, resolver, job>>

\* task_group.start(submit_flow_run, ...) returns when the infrastructure
\* signals started (the workload goes on as a task of the group, and
\* submit_run ends), or raises, and the coordinator awaits the answer to its
\* Failed proposal.
SubmitResponse(a, c) ==
    /\ c.pc = "submit" /\ ~Cancelled(agent[a].task_group)
    /\ \/ /\ coords' = [coords EXCEPT ![a] = @ (-) One(c)]
          /\ workloads' = [workloads EXCEPT ![a] = @ (+) One(c.run)]
          /\ agent' = [agent EXCEPT ![a] = RemoveAndEnd(@, c.run)]
       \/ /\ \E exc \in Excs :
               coords' = [coords EXCEPT ![a] = (@ (-) One(c)) (+)
                   One([c EXCEPT !.pc = "report", !.exc = exc,
                                 !.proposal = FailedState(exc)])]
          /\ UNCHANGED <<agent, workloads>>
    /\ UNCHANGED <<life, ticks, server, now, hist, resolver, job>>

\* Mutant of ProposeFailedState: an Abort is not caught.
ProposeFailedStateAbortRaises(reply) ==
    IF reply = "abort" THEN "raised"
    ELSE IF reply = "error" THEN "returned"
    ELSE "returned"

\* _propose_failed_state after the answer to its proposal: it returns when
\* the proposal was accepted, on Abort (pass) and on any other error (logged).
ProposeFailedState(reply) ==
    IF reply = "abort" THEN "returned"
    ELSE IF reply = "error" THEN "returned"
    ELSE "returned"

\* The coordinator is resumed by the answer to its Failed proposal; when
\* _propose_failed_state returns, submit_run ends.
ProposeFailedResponse(a, c) ==
    /\ c.pc = "report" /\ ~Cancelled(agent[a].task_group)
    /\ \E reply \in ServerProposeFailed(server[c.run]) :
         /\ server' = [server EXCEPT ![c.run] =
                IF reply = "FAILED" THEN "FAILED" ELSE @]
         /\ agent' = [agent EXCEPT ![a] =
                IF ProposeFailedState(reply) = "returned"
                THEN RemoveAndEnd(@, c.run) ELSE TaskCrashed(@)]
    /\ coords' = [coords EXCEPT ![a] = @ (-) One(c)]
    /\ UNCHANGED <<life, ticks, workloads, now, hist, resolver, job>>

\* Mutant of IsException: the clause catches every error, the cancellation
\* included.
IsExceptionAny(error) == TRUE

\* except Exception as exc: the errors the clause of submit_run catches. The
\* error raised at an await of a cancelled task is a BaseException that is
\* no Exception (asyncio.CancelledError since Python 3.8, trio.Cancelled).
IsException(error) == error \in Excs

\* A coordinator of a cancelled task group is cancelled at its await: the
\* cancellation passes the except clauses, and the final remove is not
\* reached. (Were it caught while awaiting the started handshake, the
\* coordinator would go on to _propose_failed_state.)
CoordinatorCancelled(a, c) ==
    /\ Cancelled(agent[a].task_group)
    /\ IF c.pc = "submit" /\ IsException("CancelledError")
       THEN coords' = [coords EXCEPT ![a] = (@ (-) One(c)) (+)
                One([c EXCEPT !.pc = "report", !.exc = "CancelledError",
                              !.proposal = FailedState("CancelledError")])]
       ELSE coords' = [coords EXCEPT ![a] = @ (-) One(c)]
    /\ UNCHANGED <<agent, life, ticks, workloads, server, now, hist, resolver, job>>

\* The workload started by submit_flow_run ends: normally (the run has
\* completed), with an exception, which crashes the task group, or by the
\* cancellation of the group.
WorkloadEnds(a, w) ==
    /\ workloads' = [workloads EXCEPT ![a] = @ (-) One(w)]
    /\ IF Cancelled(agent[a].task_group)
       THEN UNCHANGED <<agent, server>>
       ELSE \E ok \in BOOLEAN :
              IF ok
              THEN /\ server' = [server EXCEPT ![w] = "COMPLETED"]
                   /\ UNCHANGED agent
              ELSE /\ agent' = [agent EXCEPT ![a] = TaskCrashed(@)]
                   /\ UNCHANGED server
    /\ UNCHANGED <<life, ticks, coords, now, hist, resolver, job>>

\* ----------------------------------------------------------- KubernetesJob
\* The paths a job template must have, in sorted order (a path is the
\* sequence of its segments), and the values it must have at two of them.
RequiredPaths ==
    << <<"apiVersion">>, <<"kind">>, <<"metadata">>, <<"metadata", "labels">>,
       <<"spec">>, <<"spec", "template">>, <<"spec", "template", "spec">>,
       <<"spec", "template", "spec", "completions">>,
       <<"spec", "template", "spec", "containers">>,
       <<"spec", "template", "spec", "parallelism">>,
       <<"spec", "template", "spec", "restartPolicy">> >>

RequiredValues == (<<"apiVersion">> :> "batch/v1") @@ (<<"kind">> :> "Job")

\* A job manifest as the validation sees it: the paths it has and the
\* values at /apiVersion and /kind. BaseJobManifest is the built-in default
\* template.
BaseJobManifest == [paths |-> Range(RequiredPaths), values |-> RequiredValues]

Parent(path) == SubSeq(path, 1, Len(path) - 1)

\* Mutant of MissingPaths: the paths under a missing parent are listed too.
MissingPathsWithChildren(manifest) ==
    SelectSeq(RequiredPaths, LAMBDA p : p \notin manifest.paths)

\* The required paths the manifest lacks, in sorted order: a missing parent
\* stands for the paths under it.
MissingPaths(manifest) ==
    SelectSeq(RequiredPaths, LAMBDA p :
        /\ p \notin manifest.paths
        /\ Len(p) > 1 => Parent(p) \in manifest.paths)

\* The attributes of the manifest with another value than the required one,
\* each with the value it must have.
IncompatibleValues(manifest) ==
    LET bad(p) == /\ p \in DOMAIN RequiredValues
                  /\ p \in DOMAIN manifest.values
                  /\ manifest.values[p] # RequiredValues[p]
        listed == SelectSeq(RequiredPaths, bad)
    IN  [i \in DOMAIN listed |->
            [path |-> listed[i], must_have |-> RequiredValues[listed[i]]]]

\* The validation of the job field: the errors it raises, one for the
\* missing paths and one for the incompatible values, each with what its
\* message lists.
ValidateJob(manifest) ==
    (IF MissingPaths(manifest) = << >> THEN << >>
     ELSE << [loc |-> "job", type |-> "value_error", msg |-> "missing",
              listed |-> [i \in DOMAIN MissingPaths(manifest) |->
                  [path |-> MissingPaths(manifest)[i],
                   must_have |-> None]]] >>)
    \o
    (IF IncompatibleValues(manifest) = << >> THEN << >>
     ELSE << [loc |-> "job", type |-> "value_error", msg |-> "incompatible",
              listed |-> IncompatibleValues(manifest)] >>)

\* A KubernetesJob block with the given fields, and its run(task_status):
\* the step run is at, the runner state, the calls made on the cluster and
\* on task_status so far, the configuration loaded, the name the cluster
\* gave the job, and the result returned.
KubernetesJob(namespace, name, pod_timeout, job_timeout) ==
    [ namespace |-> namespace, name |-> name,
      pod_watch_timeout_seconds |-> pod_timeout,
      job_watch_timeout_seconds |-> job_timeout,
      step |-> "idle", state |-> "none", calls |-> << >>, config |-> << >>,
      job_name |-> None,
      result |-> [identifier |-> None, status |-> None],
      job |-> BaseJobManifest, errors |-> << >>,
      command |-> <<"echo", "hello">>, customizations |-> << >>,
      manifest |-> None ]

\* --- the sanitizer of generated names. A name is the sequence of its
\* characters.
UpperCase == <<"A", "B", "C", "D", "E", "F", "G", "H", "I", "J", "K", "L", "M", "N", "O", "P", "Q", "R", "S", "T", "U", "V", "W", "X", "Y", "Z">>

LowerCase == <<"a", "b", "c", "d", "e", "f", "g", "h", "i", "j", "k", "l", "m", "n", "o", "p", "q", "r", "s", "t", "u", "v", "w", "x", "y", "z">>

Digits == {"0", "1", "2", "3", "4", "5", "6", "7", "8", "9"}

\* The longest generated name.
MaxNameLength == 63

Lower(c) ==
    IF c \in Range(UpperCase)
    THEN LowerCase[CHOOSE i \in DOMAIN UpperCase : UpperCase[i] = c]
    ELSE c

IsAlphanumeric(c) == c \in Range(LowerCase) \cup Digits

\* s without the characters other than letters and digits it starts with.
RECURSIVE TrimLeading(_)
TrimLeading(s) ==
    IF s = << >> \/ IsAlphanumeric(Head(s)) THEN s
    ELSE TrimLeading(Tail(s))

\* Mutant of ReplaceRuns: every character of a run becomes a '-'.
RECURSIVE ReplaceRunsEach(_)
ReplaceRunsEach(s) ==
    IF s = << >> THEN << >>
    ELSE IF IsAlphanumeric(Head(s))
         THEN <<Head(s)>> \o ReplaceRunsEach(Tail(s))
         ELSE <<"-">> \o ReplaceRunsEach(Tail(s))

\* s with each run of characters other than letters and digits replaced by
\* one '-' ("infra9.-foo_bar^x" becomes "infra9-foo-bar-x").
RECURSIVE ReplaceRuns(_)
ReplaceRuns(s) ==
    IF s = << >> THEN << >>
    ELSE IF IsAlphanumeric(Head(s))
         THEN <<Head(s)>> \o ReplaceRuns(Tail(s))
         ELSE <<"-">> \o ReplaceRuns(TrimLeading(Tail(s)))

Truncate(s, length) == SubSeq(s, 1, IF Len(s) < length THEN Len(s) ELSE length)

\* The name generateName is given: lowercased, runs replaced, without the
\* leading '-', at most MaxNameLength characters long.
SanitizeName(name) ==
    Truncate(
        TrimLeading(ReplaceRuns([i \in DOMAIN name |-> Lower(name[i])])),
        MaxNameLength)

\* --- build_job. A customization is an operation of a JSON Patch: its op,
\* its path (a JSON pointer: the sequence of its tokens, a token the
\* sequence of its pieces, "~1" and "~0" the escapes) and its value.
Unescape(token) ==
    [i \in DOMAIN token |->
        IF token[i] = "~1" THEN "/" ELSE IF token[i] = "~0" THEN "~"
        ELSE token[i]]

Pointer(path) == [i \in DOMAIN path |-> Unescape(path[i])]

\* The position in an array of length len an index token stands for.
ArrayIndex(token, len) ==
    IF token = <<"-">> THEN len
    ELSE CHOOSE i \in 0..9 : token = <<(<<"0", "1", "2", "3", "4", "5", "6", "7", "8", "9">>)[i + 1]>>

Insert(array, index, value) ==
    SubSeq(array, 1, index) \o <<value>> \o SubSeq(array, index + 1, Len(array))

CommandPath == << <<"spec">>, <<"template">>, <<"spec">>, <<"containers">>, <<"0">>, <<"command">> >>

\* The manifest after one operation of the patch: an add or replace of a
\* label, of the namespace, or of a token of the prefect-job container's
\* command (an add at an index inserts before the token at that index).
ApplyPatch(manifest, patch) ==
    LET path == Pointer(patch.path)
        command == manifest.spec.template.spec.containers[1].command
    IN  CASE Len(path) = 3 /\ SubSeq(path, 1, 2) = << <<"metadata">>, <<"labels">> >> ->
               [manifest EXCEPT !.metadata.labels = (path[3] :> patch.value) @@ @]
          [] path = << <<"metadata">>, <<"namespace">> >> ->
               [manifest EXCEPT !.metadata.namespace = patch.value]
          [] Len(path) = 7 /\ SubSeq(path, 1, 6) = CommandPath /\ patch.op = "add" ->
               [manifest EXCEPT !.spec.template.spec.containers[1].command =
                    Insert(@, ArrayIndex(path[7], Len(command)), patch.value)]
          [] Len(path) = 7 /\ SubSeq(path, 1, 6) = CommandPath /\ patch.op = "replace" ->
               [manifest EXCEPT !.spec.template.spec.containers[1].command =
                    [@ EXCEPT ![ArrayIndex(path[7], Len(command)) + 1] = patch.value]]

\* Mutant of ApplyCustomizations: the last operation is applied first.
RECURSIVE ApplyCustomizationsReversed(_, _)
ApplyCustomizationsReversed(manifest, patches) ==
    IF patches = << >> THEN manifest
    ELSE ApplyCustomizationsReversed(
             ApplyPatch(manifest, patches[Len(patches)]),
             SubSeq(patches, 1, Len(patches) - 1))

\* The patch applied: its operations one after another, each to the result
\* of the one before.
RECURSIVE ApplyCustomizations(_, _)
ApplyCustomizations(manifest, patches) ==
    IF patches = << >> THEN manifest
    ELSE ApplyCustomizations(ApplyPatch(manifest, Head(patches)),
                             Tail(patches))

\* The default job template with the fields the agent controls: the
\* generated name, the namespace, and the command of the prefect-job
\* container.
InjectFields(j) ==
    [ apiVersion |-> "batch/v1", kind |-> "Job",
      metadata |-> [labels |-> << >>, generateName |-> SanitizeName(j.name),
                    namespace |-> j.namespace],
      spec |-> [template |-> [spec |->
          [parallelism |-> 1, completions |-> 1, restartPolicy |-> "Never",
           containers |-> << [name |-> "prefect-job",
                              command |-> j.command] >>]]] ]

\* The manifest build_job() returns: the customizations applied to the
\* template with the injected fields.
BuildJob(j) == ApplyCustomizations(InjectFields(j), j.customizations)

\* The identifier of a created job: its namespace and its name.
JobIdentifier(namespace, job_name) ==
    [namespace |-> namespace, job_name |-> job_name]

JobNames == {"job-abc", "job-xyz"}

Call(name, args) == [call |-> name, args |-> args]

\* Mutant of AfterStep: started is signalled once the pod watch has ended.
AfterStepStartedLate(step) ==
    CASE step = "config" -> "create"
      [] step = "create" -> "watch_pod"
      [] step = "watch_pod" -> "started"
      [] step = "started" -> "read_pod_status"
      [] step = "read_pod_status" -> "watch_job"
      [] step = "watch_job" -> "return"

\* The step of run that follows a step.
AfterStep(step) ==
    CASE step = "config" -> "create"
      [] step = "create" -> "started"
      [] step = "started" -> "watch_pod"
      [] step = "watch_pod" -> "read_pod_status"
      [] step = "read_pod_status" -> "watch_job"
      [] step = "watch_job" -> "return"

\* KubernetesJob(job=manifest, ...): the constructor validates the job
\* template and raises a ValidationError with the errors found.
ConstructJob ==
    /\ job.step = "new"
    /\ job' = [job EXCEPT
           !.errors = ValidateJob(job.job),
           !.step = IF ValidateJob(job.job) = << >> THEN "idle"
                    ELSE "invalid"]
    /\ UNCHANGED <<agent, life, ticks, coords, workloads, server, now, hist,
                   resolver>>

RunFrame ==
    UNCHANGED <<agent, life, ticks, coords, workloads, server, now, hist,
                resolver>>

\* build_job() is called on a job and returns its manifest.
BuildManifest ==
    /\ job.step = "build"
    /\ job' = [job EXCEPT !.manifest = BuildJob(job), !.step = "built"]
    /\ RunFrame

\* run(task_status) is called: the in-cluster configuration is tried and,
\* outside a cluster, the kube-config of the environment is loaded.
\* Mutant of ConfigureClient: the kube-config is loaded in every case.
ConfigureClientBoth(in_cluster) ==
    << [call |-> "load_incluster_config",
        raised |-> IF in_cluster THEN None ELSE "ConfigException"],
       [call |-> "load_kube_config", raised |-> None] >>

\* The configuration calls of run, each with the exception it raised:
\* load_incluster_config and, when it raised ConfigException,
\* load_kube_config.
ConfigureClient(in_cluster) ==
    IF in_cluster
    THEN << [call |-> "load_incluster_config", raised |-> None] >>
    ELSE << [call |-> "load_incluster_config", raised |-> "ConfigException"],
            [call |-> "load_kube_config", raised |-> None] >>

RunConfig ==
    /\ job.step = "idle"
    /\ \E in_cluster \in BOOLEAN :
         job' = [job EXCEPT !.config = ConfigureClient(in_cluster),
                            !.step = AfterStep("config")]
    /\ RunFrame

\* create_namespaced_job(namespace, manifest) answers with the job as the
\* cluster named it, or fails, which ends run.
RunCreate ==
    /\ job.step = "create"
    /\ \/ \E job_name \in JobNames :
            job' = [job EXCEPT
                !.calls = Append(@, Call("create_namespaced_job",
                                         <<job.namespace, BuildJob(job)>>)),
                !.job_name = job_name, !.state = "created",
                !.step = AfterStep("create")]
       \/ job' = [job EXCEPT
                !.calls = Append(@, Call("create_namespaced_job",
                                         <<job.namespace, BuildJob(job)>>)),
                !.step = "raised"]
    /\ RunFrame

\* task_status.started(identifier)
RunStarted ==
    /\ job.step = "started"
    /\ job' = [job EXCEPT
           !.calls = Append(@, Call("task_status.started",
                  <<JobIdentifier(job.namespace, job.job_name)>>)),
           !.step = AfterStep("started")]
    /\ RunFrame

\* The pod watch is opened on list_namespaced_pod.
RunWatchPod ==
    /\ job.step = "watch_pod"
    /\ job' = [job EXCEPT
           !.calls = Append(@, Call("list_namespaced_pod",
                  <<job.namespace, job.pod_watch_timeout_seconds>>)),
           !.state = "pod-pending", !.step = "pod_events"]
    /\ RunFrame

\* An event of the pod stream (the pod's phase), or the end of the stream.
RunPodEvent ==
    /\ job.step = "pod_events"
    /\ \E phase \in {"Pending", "Running", "end"} :
         job' = [job EXCEPT
             !.state = IF phase = "Running" THEN "pod-running" ELSE @,
             !.step = IF phase = "Pending" THEN @
                      ELSE AfterStep("watch_pod")]
    /\ RunFrame

\* read_namespaced_pod_status confirms the pod; without a running pod run
\* ends early.
RunReadPodStatus ==
    /\ job.step = "read_pod_status"
    /\ job' = [job EXCEPT
           !.calls = Append(@, Call("read_namespaced_pod_status",
                                    <<job.namespace>>)),
           !.step = IF job.state = "pod-running"
                    THEN AfterStep("read_pod_status") ELSE "return"]
    /\ RunFrame

\* The job watch is opened on list_namespaced_job.
RunWatchJob ==
    /\ job.step = "watch_job"
    /\ job' = [job EXCEPT
           !.calls = Append(@, Call("list_namespaced_job",
                  <<job.namespace, job.job_watch_timeout_seconds>>)),
           !.step = "job_events"]
    /\ RunFrame

\* An event of the job stream (with or without a completion time), or the
\* end of the stream.
RunJobEvent ==
    /\ job.step = "job_events"
    /\ \E event \in {"active", "completion_time", "end"} :
         job' = [job EXCEPT
             !.state = IF event = "completion_time" THEN "job-completed"
                       ELSE @,
             !.step = IF event = "active" THEN @
                      ELSE AfterStep("watch_job")]
    /\ RunFrame

\* run returns its result.
RunReturn ==
    /\ job.step = "return"
    /\ job' = [job EXCEPT
           !.result = [identifier |->
                           JobIdentifier(job.namespace, job.job_name),
                       status |-> IF job.state = "job-completed"
                                  THEN "completed" ELSE "not-completed"],
           !.step = "returned"]
    /\ RunFrame

\* ------------------------------------------------------------------- clock
\* pendulum.now("UTC") between two steps: the clock values that matter are
\* the last instant before a cache set at a multiple of 30 s expires, and
\* the instant it expires.
NextTime(t) == IF t % CacheSeconds = 0 THEN t + CacheSeconds - 1 ELSE t + 1

AdvanceClock ==
    /\ now < MaxTime * CacheSeconds
    /\ now' = NextTime(now)
    /\ UNCHANGED <<agent, life, ticks, coords, workloads, server, hist,
                   resolver, job>>

\* -------------------------------------------------------- specifications
\* No call of get_and_submit_flow_runs has been traced.
NoYields ==
    [a \in Agents |-> [t \in TickIds |->
        [view |-> None, expiration |-> NoTime, names |-> << >>]]]

InitProgram(ag) ==
    /\ agent = [a \in Agents |-> ag]
    /\ life = [a \in Agents |-> [start |-> "idle", shutdown |-> "idle"]]
    /\ ticks = [a \in Agents |-> [t \in TickIds |-> IdleTick]]
    /\ coords = [a \in Agents |-> EmptyBag]
    /\ workloads = [a \in Agents |-> EmptyBag]
    /\ server = [r \in Runs |-> "SCHEDULED"]
    /\ now = 0
    /\ hist = [dispatched |-> [a \in Agents |-> [r \in Runs |-> 0]],
               reloaded |-> [a \in Agents |-> NoTime],
               logging |-> FALSE, log |-> [a \in Agents |-> << >>],
               tracing |-> FALSE, yields |-> NoYields]

InitWith(ag) ==
    /\ InitProgram(ag)
    /\ resolver = NewResolver(BlockData, << >>)
    /\ job = KubernetesJob("default", <<"j", "o", "b">>, None, None)

\* The state once start() has returned.
Started(ag) ==
    [ag EXCEPT !.started = TRUE, !.task_group = "open",
               !.client = "connected",
               !.default_infrastructure_document_id =
                   IF ag.default_infrastructure # None /\ @ = None
                   THEN "anon" ELSE @]

LifecycleNext(a) ==
    \/ StartCall(a)
    \/ StartClientEntered(a)
    \/ StartSaved(a)
    \/ ShutdownCall(a)
    \/ ShutdownTaskGroupExited(a)
    \/ ShutdownClientExited(a)

TickNext(a, T) ==
    \/ \E t \in T : BeginTick(a, t)
    \/ \E t \in T : ReadWorkQueueResponse(a, t)
    \/ \E t \in T : CreateWorkQueueResponse(a, t)
    \/ \E t \in T : GetRunsResponse(a, t)

CoordinatorNext(a) ==
    \/ \E c \in BagToSet(coords[a]) : ProposePendingResponse(a, c)
    \/ \E c \in BagToSet(coords[a]) : ReadDeploymentResponse(a, c)
    \/ \E c \in BagToSet(coords[a]) : ReadBlockDocumentResponse(a, c)
    \/ \E c \in BagToSet(coords[a]) : SubmitResponse(a, c)
    \/ \E c \in BagToSet(coords[a]) : ProposeFailedResponse(a, c)
    \/ \E c \in BagToSet(coords[a]) : CoordinatorCancelled(a, c)
    \/ \E w \in BagToSet(workloads[a]) : WorkloadEnds(a, w)

ShutdownNext(a) ==
    \/ ShutdownCall(a)
    \/ ShutdownTaskGroupExited(a)
    \/ ShutdownClientExited(a)

\* One agent from its construction on, its ticks called one after another.
Init == InitWith(NewAgent(<<"q1">>, << >>, None, None))

Next == LifecycleNext("a1") \/ TickNext("a1", {1}) \/ CoordinatorNext("a1")

Spec == Init /\ [][Next]_vars

\* One started agent whose ticks overlap.
InitStarted == InitWith(Started(NewAgent(<<"q1">>, << >>, None, None)))

NextOverlap ==
    TickNext("a1", TickIds) \/ CoordinatorNext("a1") \/ ShutdownNext("a1")

SpecOverlap == InitStarted /\ [][NextOverlap]_vars

\* Two started agents polling the same work queue of one server.
NextAgents == \E a \in Agents : TickNext(a, {1}) \/ CoordinatorNext(a)

SpecAgents == InitStarted /\ [][NextAgents]_vars

\* One started agent with two configured work queues, its ticks called one
\* after another while time passes.
InitQueues == InitWith(Started(NewAgent(<<"q1", "q2">>, << >>, None, None)))

NextQueues == TickNext("a1", {1}) \/ CoordinatorNext("a1") \/ AdvanceClock

SpecQueues == InitQueues /\ [][NextQueues]_vars

\* The same agent for each prefetch_seconds of PrefetchChoices (its
\* coordinators are left where they start).
PrefetchChoices == {<< >>, <<0>>, <<5>>, <<-5>>}

InitPrefetch ==
    \E prefetch_seconds \in PrefetchChoices :
        InitWith(Started(NewAgent(<<"q1", "q2">>, prefetch_seconds, None,
                                  None)))

NextPrefetch == TickNext("a1", {1}) \/ AdvanceClock

SpecPrefetch == InitPrefetch /\ [][NextPrefetch]_vars

\* The same agent with the calls of its ticks logged (its coordinators are
\* left where they start).
InitLogged ==
    /\ agent = [a \in Agents |->
           Started(NewAgent(<<"q1", "q2">>, << >>, None, None))]
    /\ life = [a \in Agents |-> [start |-> "idle", shutdown |-> "idle"]]
    /\ ticks = [a \in Agents |-> [t \in TickIds |-> IdleTick]]
    /\ coords = [a \in Agents |-> EmptyBag]
    /\ workloads = [a \in Agents |-> EmptyBag]
    /\ server = [r \in Runs |-> "SCHEDULED"]
    /\ now = 0
    /\ hist = [dispatched |-> [a \in Agents |-> [r \in Runs |-> 0]],
               reloaded |-> [a \in Agents |-> NoTime],
               logging |-> TRUE, log |-> [a \in Agents |-> << >>],
               tracing |-> FALSE, yields |-> NoYields]
    /\ resolver = NewResolver(BlockData, << >>)
    /\ job = KubernetesJob("default", <<"j", "o", "b">>, None, None)

NextLogged == TickNext("a1", {1}) \/ AdvanceClock

SpecLogged == InitLogged /\ [][NextLogged]_vars

\* The same agent with overlapping ticks and the yields of get_work_queues
\* traced (its coordinators are left where they start).
InitTraced ==
    /\ agent = [a \in Agents |->
           Started(NewAgent(<<"q1", "q2">>, << >>, None, None))]
    /\ life = [a \in Agents |-> [start |-> "idle", shutdown |-> "idle"]]
    /\ ticks = [a \in Agents |-> [t \in TickIds |-> IdleTick]]
    /\ coords = [a \in Agents |-> EmptyBag]
    /\ workloads = [a \in Agents |-> EmptyBag]
    /\ server = [r \in Runs |-> "SCHEDULED"]
    /\ now = 0
    /\ hist = [dispatched |-> [a \in Agents |-> [r \in Runs |-> 0]],
               reloaded |-> [a \in Agents |-> NoTime],
               logging |-> FALSE, log |-> [a \in Agents |-> << >>],
               tracing |-> TRUE, yields |-> NoYields]
    /\ resolver = NewResolver(BlockData, << >>)
    /\ job = KubernetesJob("default", <<"j", "o", "b">>, None, None)

NextTraced == TickNext("a1", TickIds)

SpecTraced == InitTraced /\ [][NextTraced]_vars

\* The same agent, shut down and started again at any time (its coordinators
\* are left where they start).
NextRestarts ==
    \/ TickNext("a1", {1})
    \/ ShutdownNext("a1")
    \/ StartCall("a1")
    \/ StartClientEntered("a1")
    \/ AdvanceClock

SpecRestarts == InitQueues /\ [][NextRestarts]_vars

\* The same agent with a server that answers every read_work_queue_by_name
\* call, with the queue or with not-found.
NextCreate ==
    \/ BeginTick("a1", 1)
    \/ ReadWorkQueueReply("a1", 1, {"found", "found_paused", "not_found"})
    \/ CreateWorkQueueResponse("a1", 1)
    \/ GetRunsResponse("a1", 1)
    \/ CoordinatorNext("a1")
    \/ AdvanceClock

SpecCreate == InitQueues /\ [][NextCreate]_vars

\* The override loop of get_infrastructure on its own, for every block
\* data and every list of overrides up to MaxOverrides long.
DataChoices ==
    { BlockData,
      [maps |-> {<< >>}, leaves |-> (<<"image">> :> "img")] }

PathChoices ==
    { <<"image">>, <<"tag">>, <<"env">>, <<"env", "A">>, <<"env", "B">>,
      <<"missing", "A">>, <<"image", "A">> }

InitOverrides ==
    /\ InitProgram(NewAgent(<<"q1">>, << >>, None, None))
    /\ \E data \in DataChoices :
       \E overrides \in SeqsUpTo([path : PathChoices, value : {"new"}],
                                 MaxOverrides) :
           resolver = NewResolver(data, overrides)
    /\ job = KubernetesJob("default", <<"j", "o", "b">>, None, None)

NextOverrides == ResolveOverride

SpecOverrides == InitOverrides /\ [][NextOverrides]_vars

\* KubernetesJob.run on its own, for the jobs of JobChoices.
JobChoices ==
    { KubernetesJob(namespace, name, pod_timeout, job_timeout) :
        namespace \in {"default", "my-awesome-flows"},
        name \in {<<"j", "o", "b">>, <<"_", "i", "n", "f", "r", "a", "_", "r", "u", "n">>},
        pod_timeout \in {None, "42"}, job_timeout \in {None, "24"} }

InitRun ==
    /\ InitProgram(NewAgent(<<"q1">>, << >>, None, None))
    /\ resolver = NewResolver(BlockData, << >>)
    /\ job \in JobChoices

NextRun ==
    \/ RunConfig
    \/ RunCreate
    \/ RunStarted
    \/ RunWatchPod
    \/ RunPodEvent
    \/ RunReadPodStatus
    \/ RunWatchJob
    \/ RunJobEvent
    \/ RunReturn

SpecRun == InitRun /\ [][NextRun]_vars

\* The construction of a KubernetesJob on its own, for every job template
\* made of required paths (a path only with its parent) and of right or
\* wrong values at /apiVersion and /kind.
ManifestChoices ==
    { [paths |-> P,
       values |-> [p \in P \cap DOMAIN RequiredValues |->
                      IF p = <<"apiVersion">> THEN api_version ELSE kind]] :
        P \in {Q \in SUBSET Range(RequiredPaths) :
                  \A p \in Q : Len(p) > 1 => Parent(p) \in Q},
        api_version \in {"batch/v1", "v1"},
        kind \in {"Job", "JobbledyJunk"} }

InitConstruct ==
    /\ InitProgram(NewAgent(<<"q1">>, << >>, None, None))
    /\ resolver = NewResolver(BlockData, << >>)
    /\ \E manifest \in ManifestChoices :
         job = [KubernetesJob("default", <<"j", "o", "b">>, None, None) EXCEPT
                   !.job = manifest, !.step = "new"]

NextConstruct == ConstructJob

SpecConstruct == InitConstruct /\ [][NextConstruct]_vars

\* build_job on its own, for jobs with the customizations of PatchChoices
\* (at most MaxPatches of them) and for jobs with the names of NameChoices.
MaxPatches == 2

MaxNameChars == 3

AddCommand(index, value) ==
    [op |-> "add", path |-> Append(CommandPath, <<index>>), value |-> value]

PatchChoices ==
    { AddCommand("0", "opentelemetry-instrument"),
      AddCommand("1", "--resource_attributes"),
      AddCommand("2", "service.name=my-cool-job"),
      AddCommand("-", "--last"),
      [op |-> "replace", path |-> Append(CommandPath, <<"0">>), value |-> "printf"],
      [op |-> "add", path |-> << <<"metadata">>, <<"labels">>, <<"example.com", "~1", "a-cool-key">> >>, value |-> "hi!"],
      [op |-> "add", path |-> << <<"metadata">>, <<"labels">>, <<"example.com", "~1", "a-cool-key">> >>, value |-> "ho!"],
      [op |-> "replace", path |-> << <<"metadata">>, <<"namespace">> >>, value |-> "my-awesome-flows"] }

Repeat(c, n) == [i \in 1..n |-> c]

NameChoices ==
    UNION {[1..n -> {"a", "B", "9", "-", "_", "."}] : n \in 0..MaxNameChars}
    \cup { <<"_", "i", "n", "f", "r", "a", "_", "r", "u", "n">>,
           <<".", ".", ".", "i", "n", "f", "r", "a", "_", "r", "u", "n">>,
           <<".", "_", "-", "i", "n", "f", "r", "a", "_", "r", "u", "n">>,
           <<"9", "i", "n", "f", "r", "a", "-", "r", "u", "n">>,
           <<"-", "i", "n", "f", "r", "a", ".", "r", "u", "n">>,
           <<"i", "n", "f", "r", "a", "*", "r", "u", "n">>,
           <<"i", "n", "f", "r", "a", "9", ".", "-", "f", "o", "o", "_", "b", "a", "r", "^", "x">>,
           Repeat("a", MaxNameLength + 1),
           Repeat("a", MaxNameLength - 1) \o <<"_", "b">>,
           Repeat("_", MaxNameLength + 1) \o <<"b">> }

InitBuild ==
    /\ InitProgram(NewAgent(<<"q1">>, << >>, None, None))
    /\ resolver = NewResolver(BlockData, << >>)
    /\ \/ \E patches \in SeqsUpTo(PatchChoices, MaxPatches) :
            job = [KubernetesJob("default", <<"j", "o", "b">>, None, None) EXCEPT
                      !.customizations = patches, !.step = "build"]
       \/ \E name \in NameChoices :
            job = [KubernetesJob("default", name, None, None) EXCEPT
                      !.step = "build"]

NextBuild == BuildManifest

SpecBuild == InitBuild /\ [][NextBuild]_vars

\* ------------------------------------------------------------------ claims
\* The coordinators of agent a that run for flow run r.
Coordinators(a, r) == {c \in BagToSet(coords[a]) : c.run = r}

\* The number of live coordinators of agent a for flow run r.
RECURSIVE SumCopies(_, _)
SumCopies(B, S) ==
    IF S = {} THEN 0
    ELSE LET c == CHOOSE x \in S : TRUE
         IN  CopiesIn(c, B) + SumCopies(B, S \ {c})

Live(a, r) == SumCopies(coords[a], Coordinators(a, r))

LiveNext(a, r) ==
    SumCopies(coords'[a], {c \in BagToSet(coords'[a]) : c.run = r})

\* Coordinator c of agent a takes a step, outside a cancelled task group.
Resumed(a, c) ==
    /\ CopiesIn(c, coords'[a]) < CopiesIn(c, coords[a])
    /\ ~Cancelled(agent[a].task_group)

\* C1: within one agent, submit_flow_run is invoked at most once for every
\* run, whatever lists of runs the ticks receive.
C1_DispatchedAtMostOnce == \A r \in Runs : hist.dispatched["a1"][r] <= 1

\* A run that was dispatched has been returned by a later tick and has a new
\* coordinator.
C1_Witness ==
    /\ hist.dispatched["a1"]["r1"] = 1
    /\ \E c \in Coordinators("a1", "r1") : c.pc = "claim"

\* C2: a coordinator resolves an infrastructure, dispatches, or reports only
\* after its own Pending proposal was answered with a Pending state.
C2_DispatchOnlyAfterPending ==
    \A a \in Agents : \A c \in BagToSet(coords[a]) :
        c.pc # "claim" => c.claim = "PENDING"

C2_Witness ==
    \E c \in BagToSet(coords["a1"]) : c.pc = "submit" /\ c.claim = "PENDING"

\* C3: with two agents polling the same queue, every run is dispatched at
\* most once in total, by at most one agent.
C3_DispatchedByOneAgent ==
    \A r \in Runs : hist.dispatched["a1"][r] + hist.dispatched["a2"][r] <= 1

\* One agent has dispatched the run while the other agent's coordinator for
\* the same run is waiting for the answer to its claim.
C3_Witness ==
    /\ hist.dispatched["a1"]["r1"] = 1
    /\ \E c \in Coordinators("a2", "r1") : c.pc = "claim"

\* C4: an agent has at most one live coordinator per run identifier, and a
\* tick spawns no coordinator for an identifier that is in
\* submitting_flow_run_ids, also when ticks overlap.
C4_OneCoordinatorPerRun ==
    /\ [](\A r \in Runs : Live("a1", r) <= 1)
    /\ [][\A r \in Runs :
            r \in agent["a1"].submitting_flow_run_ids
                => LiveNext("a1", r) <= Live("a1", r)]_vars

\* Two ticks overlap while a coordinator of a run they may fetch is live.
C4_Witness ==
    /\ InProgress(ticks["a1"][1]) /\ InProgress(ticks["a1"][2])
    /\ ticks["a1"][1].pc = "fetch" /\ ticks["a1"][2].pc = "fetch"
    /\ Live("a1", "r1") = 1
    /\ "r1" \in agent["a1"].submitting_flow_run_ids

\* C5 (as claimed): a coordinator that ends, on any path other than the
\* cancellation of its task group, has removed its run identifier from
\* submitting_flow_run_ids.
C5_EndedCoordinatorRemoved ==
    [][\A c \in BagToSet(coords["a1"]) :
          (Resumed("a1", c) /\ coords'["a1"] = coords["a1"] (-) One(c))
              => c.run \notin agent'["a1"].submitting_flow_run_ids]_vars

\* C6: when the submission raises, the coordinator proposes a Failed state
\* with the message "Submission failed." and the serialized exception.
C6_SubmitFailureReported ==
    /\ [](\A c \in BagToSet(coords["a1"]) :
            c.pc = "report" =>
                c.proposal = [ type |-> "FAILED",
                               message |-> "Submission failed.",
                               data |-> [encoding |-> "cloudpickle",
                                         blob |-> c.exc] ])
    /\ [][\A c \in BagToSet(coords["a1"]) :
            (/\ c.pc = "submit" /\ Resumed("a1", c)
             /\ workloads'["a1"] = workloads["a1"])
                => \E d \in BagToSet(coords'["a1"]) :
                     /\ d.run = c.run /\ d.pc = "report" /\ d.exc \in Excs
                     /\ coords'["a1"] = (coords["a1"] (-) One(c)) (+) One(d)]_vars

C6_Witness ==
    \E c \in BagToSet(coords["a1"]) :
        c.pc = "report" /\ c.exc = "E2" /\ c.proposal.data.blob = "E2"

\* C7: a coordinator whose Pending proposal is answered by an Abort, an
\* error or a state that is not Pending (the server keeps the run's state)
\* ends at once: it removes its identifier and does nothing else.
C7_RefusedClaimOnlyRemoves ==
    [][\A c \in BagToSet(coords["a1"]) :
          (c.pc = "claim" /\ Resumed("a1", c) /\ server' = server)
              => /\ coords'["a1"] = coords["a1"] (-) One(c)
                 /\ agent'["a1"] = [agent["a1"] EXCEPT
                        !.submitting_flow_run_ids = @ \ {c.run}]
                 /\ c.run \in agent["a1"].submitting_flow_run_ids
                 /\ UNCHANGED <<workloads, hist, life, ticks>>]_vars

\* A coordinator awaits the answer to its claim of a run the server holds as
\* failed: every answer refuses the claim.
C7_Witness ==
    \E c \in Coordinators("a1", "r1") :
        /\ c.pc = "claim" /\ server["r1"] = "FAILED"
        /\ ~Cancelled(agent["a1"].task_group)

\* C8 (as claimed): an error while resolving the infrastructure of a claimed
\* run makes the coordinator propose Failed; submit_run does not raise.
C8_ResolutionFailureReported ==
    [][\A c \in BagToSet(coords["a1"]) :
          (c.pc \in {"read_deployment", "read_block_document"}
             /\ Resumed("a1", c))
              => /\ \E d \in Coordinators("a1", c.run)' :
                      d.pc \in {"read_block_document", "submit", "report"}
                 /\ agent'["a1"].task_group = agent["a1"].task_group]_vars

\* C9: whatever answers the Failed proposal, _propose_failed_state lets no
\* exception out: the coordinator ends normally, without another proposal.
C9_ReportFailureAbsorbed ==
    [][\A c \in BagToSet(coords["a1"]) :
          (c.pc = "report" /\ Resumed("a1", c))
              => /\ coords'["a1"] = coords["a1"] (-) One(c)
                 /\ agent'["a1"] = [agent["a1"] EXCEPT
                        !.submitting_flow_run_ids = @ \ {c.run}]
                 /\ UNCHANGED <<workloads, hist, life, ticks>>]_vars

\* The run was dispatched once, its submission failed and the Failed
\* proposal was not accepted (the server still holds Pending); the
\* coordinator is gone and the task group is intact.
C9_Witness ==
    /\ hist.dispatched["a1"]["r1"] = 1 /\ server["r1"] = "PENDING"
    /\ Live("a1", "r1") = 0 /\ ~BagIn("r1", workloads["a1"])
    /\ "r1" \notin agent["a1"].submitting_flow_run_ids
    /\ agent["a1"].task_group = "open" /\ life["a1"].shutdown = "idle"

\* C10 (as claimed): a call of get_and_submit_flow_runs made while the task
\* group is not open or the client is not connected ends with the
\* not-started error and changes nothing else.
C10_NotStartedUnlessOpen ==
    [][\A t \in TickIds :
          (/\ ~InProgress(ticks["a1"][t])
           /\ ticks'["a1"][t] # ticks["a1"][t]
           /\ ~(Active(agent["a1"].task_group)
                  /\ agent["a1"].client = "connected"))
              => /\ ticks'["a1"][t].pc = "not_started"
                 /\ UNCHANGED <<agent, coords>>]_vars

\* C11 (as claimed): a failing server call for one work queue (while loading
\* it or while fetching its runs) does not make the tick raise, and the tick
\* goes on with the next configured queue.
C11_FailingQueueDoesNotAbortTick ==
    /\ [](ticks["a1"][1].pc # "raised")
    /\ [][LET tk == ticks["a1"][1]
              tn == ticks'["a1"][1]
          IN  (/\ InProgress(tk) /\ tk.mode = "reload" /\ tn # tk
               /\ tk.qi < Len(agent["a1"].work_queues))
                  => /\ InProgress(tn)
                     /\ \/ tn.qi = tk.qi /\ tk.pc = "read"
                        \/ tn.qi = tk.qi + 1 /\ tn.pc = "read"]_vars

\* The cache entries i..j are all paused.
PausedOnly(cache, i, j) == \A k \in i..j : cache[k].is_paused

\* C12: a tick never awaits get_runs_in_work_queue for a queue yielded with
\* is_paused true, and every other queue of the tick is still processed:
\* iterating the cache, the tick fetches exactly the entries that are not
\* paused, in order; reloading, a paused queue is followed by the read of
\* the next configured name and a queue that is not paused is fetched.
C12_PausedQueueSkipped ==
    /\ [](\A t \in TickIds :
            ticks["a1"][t].pc = "fetch" => ~ticks["a1"][t].queue.is_paused)
    /\ [][LET tk == ticks["a1"][1]
              tn == ticks'["a1"][1]
              cache == agent["a1"].work_queue_cache
              from == IF InProgress(tk) THEN tk.qi ELSE 1
              cached == IF InProgress(tk) THEN tk.mode = "cached"
                        ELSE CacheLive(
                            agent["a1"].work_queue_cache_expiration, now)
          IN  (tn # tk /\ cached) =>
                 IF tn.pc = "fetch"
                 THEN /\ tn.qi - 1 \in from..Len(cache)
                      /\ PausedOnly(cache, from, tn.qi - 2)
                      /\ tn.queue = cache[tn.qi - 1]
                 ELSE PausedOnly(cache, from, Len(cache))]_vars
    /\ [][LET tk == ticks["a1"][1]
              tn == ticks'["a1"][1]
              cache == agent["a1"].work_queue_cache
              added == agent'["a1"].work_queue_cache
          IN  (tk.pc \in {"read", "create"} /\ Len(added) = Len(cache) + 1) =>
                 IF added[Len(added)].is_paused
                 THEN IF tk.qi < Len(agent["a1"].work_queues)
                      THEN tn.pc = "read" /\ tn.qi = tk.qi + 1
                      ELSE ~InProgress(tn)
                 ELSE tn.pc = "fetch" /\ tn.queue = added[Len(added)]]_vars

\* Iterating a cache whose first queue is paused, the tick awaits the runs of
\* the second queue.
C12_Witness ==
    LET tk == ticks["a1"][1]
    IN  /\ tk.pc = "fetch" /\ tk.mode = "cached" /\ tk.queue.name = "q2"
        /\ Len(agent["a1"].work_queue_cache) = 2
        /\ agent["a1"].work_queue_cache[1].is_paused

\* C13: shutdown closes the client only after the task group has exited,
\* which it does when no coordinator and no workload of the group is left;
\* when shutdown returns, started is false, submitting_flow_run_ids and the
\* work-queue cache are empty and the cache expiration is unset.
C13_ShutdownWaitsThenResets ==
    /\ [](life["a1"].shutdown = "wait_tg" =>
            /\ agent["a1"].client = "connected"
            /\ Active(agent["a1"].task_group))
    /\ [](life["a1"].shutdown = "wait_client" =>
            /\ coords["a1"] = EmptyBag /\ workloads["a1"] = EmptyBag
            /\ agent["a1"].task_group = "closed"
            /\ agent["a1"].client = "connected")
    /\ [][(life'["a1"].shutdown = "done" /\ life["a1"].shutdown # "done") =>
            /\ life["a1"].shutdown = "wait_client"
            /\ coords'["a1"] = EmptyBag /\ workloads'["a1"] = EmptyBag
            /\ ~agent'["a1"].started
            /\ agent'["a1"].submitting_flow_run_ids = {}
            /\ agent'["a1"].work_queue_cache = << >>
            /\ agent'["a1"].work_queue_cache_expiration = NoTime
            /\ agent'["a1"].task_group = None
            /\ agent'["a1"].client = None]_vars

\* shutdown has returned on an agent that had loaded its queue and
\* dispatched a run.
C13_Witness ==
    /\ life["a1"].shutdown = "done"
    /\ hist.dispatched["a1"]["r1"] = 1
    /\ agent["a1"].work_queue_cache = << >>

\* C14 (as claimed): a call of shutdown on an agent whose shutdown has
\* completed (and that was not started again) returns without error and
\* leaves the agent's fields as they were.
C14_ShutdownIdempotent ==
    [][(/\ life["a1"].shutdown = "done" /\ agent["a1"].task_group = None
        /\ life'["a1"].shutdown # life["a1"].shutdown)
          => /\ life'["a1"].shutdown # "raised"
             /\ agent'["a1"] = agent["a1"]]_vars

\* C15 (as claimed): when a call of get_work_queues reads the cache, the
\* cache is empty with no expiration, or it is not empty and its expiration
\* is not before the current time.
C15_CacheConsistentAtRead ==
    [][(/\ ~InProgress(ticks["a1"][1])
        /\ ticks'["a1"][1] # ticks["a1"][1]
        /\ agent["a1"].started)
          => \/ /\ agent["a1"].work_queue_cache = << >>
                /\ agent["a1"].work_queue_cache_expiration = NoTime
             \/ /\ agent["a1"].work_queue_cache # << >>
                /\ agent["a1"].work_queue_cache_expiration # NoTime
                /\ agent["a1"].work_queue_cache_expiration >= now]_vars

\* The names of the queues in a cache.
CachedNames(cache) == {cache[i].name : i \in DOMAIN cache}

\* C16 (as claimed): when the read of a configured name answers not-found
\* and the creation fails, the queue is not yielded (nothing is fetched for
\* it, it is not cached) and the tick goes on with the next name; and the
\* next tick reads the names again, so a tick that begins after a reload
\* that left a configured name out of the cache starts with a read.
C16_FailedCreateRetriedNextTick ==
    /\ [][LET tk == ticks["a1"][1]
              tn == ticks'["a1"][1]
          IN  (/\ tk.pc = "create" /\ tn # tk
               /\ agent'["a1"].work_queue_cache = agent["a1"].work_queue_cache)
                 => /\ agent["a1"].work_queues[tk.qi] \notin
                           CachedNames(agent'["a1"].work_queue_cache)
                    /\ IF tk.qi < Len(agent["a1"].work_queues)
                       THEN tn.pc = "read" /\ tn.qi = tk.qi + 1
                       ELSE tn.pc = "returned"]_vars
    /\ [][LET tk == ticks["a1"][1]
              tn == ticks'["a1"][1]
          IN  (/\ ~InProgress(tk) /\ tn # tk
               /\ agent["a1"].work_queue_cache_expiration # NoTime
               /\ Range(agent["a1"].work_queues) #
                      CachedNames(agent["a1"].work_queue_cache))
                 => tn.pc = "read" /\ tn.mode = "reload" /\ tn.qi = 1]_vars

\* C17: when the infrastructure signals started, task_group.start returns
\* and the coordinator ends at once, removing its identifier, while the
\* workload goes on as a task of the group; no step of a coordinator or of
\* a tick waits for a workload to end.
C17_CoordinatorEndsAtStarted ==
    [][\A c \in BagToSet(coords["a1"]) :
          (/\ c.pc = "submit" /\ Resumed("a1", c)
           /\ workloads'["a1"] # workloads["a1"])
              => /\ workloads'["a1"] = workloads["a1"] (+) One(c.run)
                 /\ coords'["a1"] = coords["a1"] (-) One(c)
                 /\ agent'["a1"] = [agent["a1"] EXCEPT
                        !.submitting_flow_run_ids = @ \ {c.run}]
                 /\ c.run \in agent["a1"].submitting_flow_run_ids
                 /\ UNCHANGED <<server, ticks, life>>]_vars

\* The workload of a run is still running while the run's coordinator is
\* gone, its identifier is no longer in the set, and a later tick is
\* fetching runs.
C17_Witness ==
    /\ BagIn("r1", workloads["a1"]) /\ server["r1"] = "PENDING"
    /\ Live("a1", "r1") = 0
    /\ "r1" \notin agent["a1"].submitting_flow_run_ids
    /\ ticks["a1"][1].pc = "fetch"
    /\ agent["a1"].task_group = "open"

\* C18: a coordinator cancelled while it awaits the started handshake ends
\* there: it does not go on to propose a Failed state, and the server's
\* record of the run is left as it was.
C18_CancelledSubmitNotReported ==
    /\ [](\A c \in BagToSet(coords["a1"]) : c.pc = "report" => c.exc \in Excs)
    /\ [][\A c \in BagToSet(coords["a1"]) :
            (/\ c.pc = "submit" /\ Cancelled(agent["a1"].task_group)
             /\ CopiesIn(c, coords'["a1"]) < CopiesIn(c, coords["a1"]))
                => /\ coords'["a1"] = coords["a1"] (-) One(c)
                   /\ UNCHANGED <<server, agent, workloads>>]_vars

\* A coordinator awaits the started handshake in a task group that has been
\* cancelled.
C18_Witness ==
    \E c \in Coordinators("a1", "r1") :
        /\ c.pc = "submit" /\ Cancelled(agent["a1"].task_group)
        /\ server["r1"] = "PENDING"

\* The entries of a block's data that lie outside the given path.
Outside(data, path) ==
    [ maps |-> {q \in data.maps : ~IsPrefix(path, q)},
      leaves |-> [q \in {x \in DOMAIN data.leaves : ~IsPrefix(path, x)} |->
                     data.leaves[q]] ]

\* Every segment of the path but the last names a mapping of the data.
Descends(data, path) ==
    \A k \in 0..(Len(path) - 1) : SubSeq(path, 1, k) \in data.maps

\* The path names an entry of the data.
Known(data, path) == path \in data.maps \/ path \in DOMAIN data.leaves

\* C19 (as claimed): an override whose path is known sets the entry at the
\* path and changes nothing else; an override with a missing intermediate
\* segment or an otherwise unknown path is an error and creates nothing.
C19_UnknownPathIsError ==
    resolver.applied > 0 =>
        IF Known(resolver.before, resolver.last.path)
        THEN /\ resolver.error = None
             /\ resolver.data.leaves[resolver.last.path] = resolver.last.value
             /\ Outside(resolver.data, resolver.last.path) =
                    Outside(resolver.before, resolver.last.path)
        ELSE /\ resolver.error # None
             /\ resolver.data = resolver.before

\* C19 (amended): an override whose path descends through mappings sets the
\* last segment to the value, whether or not the mapping had that entry,
\* and changes nothing else; an override with an intermediate segment that
\* is missing or is no mapping is an error and changes nothing.
C19_OverrideSetsLastSegment ==
    resolver.applied > 0 =>
        IF Descends(resolver.before, resolver.last.path)
        THEN /\ resolver.error = None
             /\ resolver.last.path \in DOMAIN resolver.data.leaves
             /\ resolver.data.leaves[resolver.last.path] = resolver.last.value
             /\ Outside(resolver.data, resolver.last.path) =
                    Outside(resolver.before, resolver.last.path)
        ELSE /\ resolver.error \in {"KeyError", "TypeError"}
             /\ resolver.data = resolver.before

\* After an override that was applied, an override whose intermediate
\* segment is missing has raised and left the changed data as it was.
C19_Witness ==
    /\ resolver.applied = 2 /\ resolver.last.path = <<"missing", "A">>
    /\ resolver.error = "KeyError"
    /\ resolver.data = resolver.before
    /\ <<"env", "B">> \in DOMAIN resolver.data.leaves

\* The calls of a completed run, in order.
RunOrder ==
    << "create_namespaced_job", "task_status.started", "list_namespaced_pod",
       "read_namespaced_pod_status", "list_namespaced_job" >>

\* The position of a runner state in created, pod-pending, pod-running,
\* job-completed.
StateRank(state) ==
    CASE state = "none" -> 0
      [] state = "created" -> 1
      [] state = "pod-pending" -> 2
      [] state = "pod-running" -> 3
      [] state = "job-completed" -> 4

\* C20: the calls of KubernetesJob.run are made in the fixed order, each
\* once: the job is created with the configured namespace and the manifest
\* of build_job(), started is called with the identifier the result
\* carries, the pod stream is watched and the pod status read, and the job
\* stream is watched; the job is completed only after all of them; the
\* runner state advances one state at a time and never goes back.
C20_RunStepsInOrder ==
    /\ [](/\ IsPrefix([i \in DOMAIN job.calls |-> job.calls[i].call],
                       RunOrder)
          /\ Len(job.calls) >= 1 =>
                job.calls[1].args = <<job.namespace, BuildJob(job)>>
          /\ Len(job.calls) >= 2 =>
                /\ job.calls[2].args =
                       <<JobIdentifier(job.namespace, job.job_name)>>
                /\ job.job_name \in JobNames
          /\ job.step = "returned" =>
                /\ Len(job.calls) >= 4
                /\ job.calls[2].args = <<job.result.identifier>>
          /\ job.state = "job-completed" => Len(job.calls) = 5)
    /\ [][/\ StateRank(job'.state) >= StateRank(job.state)
          /\ StateRank(job'.state) <= StateRank(job.state) + 1]_vars

\* A run in another namespace than the default has returned after the job
\* reported its completion time.
C20_Witness ==
    /\ job.step = "returned" /\ job.state = "job-completed"
    /\ job.result.status = "completed"
    /\ job.namespace = "my-awesome-flows" /\ Len(job.calls) = 5

\* C21: a KubernetesJob with a job template is rejected, with errors on
\* field job, exactly when the template lacks a required path or has a
\* wrong value at /apiVersion or /kind; the missing-paths error lists every
\* topmost missing path (a missing parent, not its children), the
\* incompatible-values error every wrong attribute with its required value;
\* a template that satisfies all rules is accepted.
C21_JobTemplateValidated ==
    job.step \in {"idle", "invalid"} =>
      LET t == job.job
          lacking == {p \in Range(RequiredPaths) : p \notin t.paths}
          topmost == {p \in lacking : Len(p) = 1 \/ Parent(p) \in t.paths}
          wrong == {p \in {<<"apiVersion">>, <<"kind">>} :
                      p \in t.paths /\ t.values[p] # RequiredValues[p]}
          about(msg) == {e \in Range(job.errors) : e.msg = msg}
      IN  /\ job.step = "invalid" <=> (lacking # {} \/ wrong # {})
          /\ job.step = "invalid" <=> job.errors # << >>
          /\ \A e \in Range(job.errors) :
                e.loc = "job" /\ e.type = "value_error"
          /\ lacking # {} <=> about("missing") # {}
          /\ \A e \in about("missing") :
                /\ {x.path : x \in Range(e.listed)} = topmost
                /\ Len(e.listed) = Cardinality(topmost)
          /\ wrong # {} <=> about("incompatible") # {}
          /\ \A e \in about("incompatible") :
                /\ {x.path : x \in Range(e.listed)} = wrong
                /\ Len(e.listed) = Cardinality(wrong)
                /\ \A x \in Range(e.listed) :
                      x.must_have = IF x.path = <<"apiVersion">>
                                    THEN "batch/v1" ELSE "Job"

\* The template with empty metadata and an empty pod spec has been
\* rejected for its five missing deeper paths.
C21_Witness ==
    /\ job.step = "invalid" /\ Len(job.errors) = 1
    /\ job.errors[1].msg = "missing"
    /\ [i \in DOMAIN job.errors[1].listed |-> job.errors[1].listed[i].path] =
          << <<"metadata", "labels">>,
             <<"spec", "template", "spec", "completions">>,
             <<"spec", "template", "spec", "containers">>,
             <<"spec", "template", "spec", "parallelism">>,
             <<"spec", "template", "spec", "restartPolicy">> >>

\* p_n(...p_1(base)...): the last operation applied to what the operations
\* before it give.
RECURSIVE Composed(_, _)
Composed(base, patches) ==
    IF patches = << >> THEN base
    ELSE ApplyPatch(Composed(base, SubSeq(patches, 1, Len(patches) - 1)),
                    patches[Len(patches)])

\* The tokens of s appear in t in the same order.
RECURSIVE IsSubsequence(_, _)
IsSubsequence(s, t) ==
    IF s = << >> THEN TRUE
    ELSE IF t = << >> THEN FALSE
    ELSE IF Head(s) = Head(t) THEN IsSubsequence(Tail(s), Tail(t))
    ELSE IsSubsequence(s, Tail(t))

IsCommandAdd(patch) ==
    /\ patch.op = "add"
    /\ SubSeq(patch.path, 1, Len(patch.path) - 1) = CommandPath

\* C22: the manifest build_job returns is the customizations applied in list
\* order to the template with the injected fields, p_n(...p_1(base)...): when
\* all of them add to the command of the prefect-job container the configured
\* tokens are all kept, in their order, shifted right by the tokens added,
\* and the last operation decides the value at its path, also at the path of
\* an injected field such as the namespace.
C22_CustomizationsInOrder ==
    job.step = "built" =>
        LET patches == job.customizations
            command == job.manifest.spec.template.spec.containers[1].command
            last == patches[Len(patches)]
        IN  /\ job.manifest = Composed(InjectFields(job), patches)
            /\ (\A i \in DOMAIN patches : IsCommandAdd(patches[i])) =>
                   /\ Len(command) = Len(job.command) + Len(patches)
                   /\ IsSubsequence(job.command, command)
            /\ (patches # << >> /\ IsCommandAdd(last)) =>
                   command[ArrayIndex(last.path[7], Len(command) - 1) + 1]
                       = last.value
            /\ (patches # << >> /\ last.path = << <<"metadata">>, <<"namespace">> >>) =>
                   job.manifest.metadata.namespace = last.value
            /\ (patches # << >> /\ Len(last.path) = 3) =>
                   job.manifest.metadata.labels[Pointer(last.path)[3]]
                       = last.value

C22_Witness ==
    /\ job.step = "built"
    /\ job.customizations = << AddCommand("0", "opentelemetry-instrument"),
                               AddCommand("1", "--resource_attributes") >>
    /\ job.manifest.spec.template.spec.containers[1].command
         = <<"opentelemetry-instrument", "--resource_attributes",
             "echo", "hello">>

\* The number of calls of name among the configuration calls made.
ConfigCalls(name) ==
    Cardinality({i \in DOMAIN job.config : job.config[i].call = name})

\* C23: once run has configured its client, load_incluster_config was the
\* first configuration call and was made once; load_kube_config was called
\* exactly once, after it, when load_incluster_config raised ConfigException,
\* and not at all when it succeeded. No cluster call is made before.
C23_InClusterConfigFirst ==
    /\ job.config = << >> => job.calls = << >>
    /\ job.step \notin {"idle", "new", "invalid", "build", "built"} =>
          /\ job.config # << >>
          /\ job.config[1].call = "load_incluster_config"
          /\ ConfigCalls("load_incluster_config") = 1
          /\ ConfigCalls("load_kube_config") =
                 (IF job.config[1].raised = "ConfigException" THEN 1 ELSE 0)
          /\ Len(job.config) =
                 (IF job.config[1].raised = "ConfigException" THEN 2 ELSE 1)

C23_Witness ==
    /\ job.step = "returned"
    /\ job.config[1].raised = "ConfigException"
    /\ ConfigCalls("load_kube_config") = 1

\* The replacement as the claim words it: a '-' of the name is kept as it
\* is and is no part of a run.
RECURSIVE ReplaceRunsKeepingDashes(_)
ReplaceRunsKeepingDashes(s) ==
    IF s = << >> THEN << >>
    ELSE IF IsAlphanumeric(Head(s)) \/ Head(s) = "-"
         THEN <<Head(s)>> \o ReplaceRunsKeepingDashes(Tail(s))
         ELSE IF Len(s) > 1 /\ ~ (IsAlphanumeric(s[2]) \/ s[2] = "-")
              THEN ReplaceRunsKeepingDashes(Tail(s))
              ELSE <<"-">> \o ReplaceRunsKeepingDashes(Tail(s))

\* n matches ^[a-z0-9]([a-z0-9-]*[a-z0-9])?$
MatchesNamePattern(n) ==
    /\ n # << >>
    /\ IsAlphanumeric(n[1]) /\ IsAlphanumeric(n[Len(n)])
    /\ \A i \in DOMAIN n : IsAlphanumeric(n[i]) \/ n[i] = "-"

Lowered(name) == [i \in DOMAIN name |-> Lower(name[i])]

Alphanumerics(s) == SelectSeq(s, IsAlphanumeric)

\* The names of test_job_name_creates_valid_name with the clean names it
\* expects.
CleanNames ==
    (<<"_", "i", "n", "f", "r", "a", "_", "r", "u", "n">>
        :> <<"i", "n", "f", "r", "a", "-", "r", "u", "n">>)
    @@ (<<".", ".", ".", "i", "n", "f", "r", "a", "_", "r", "u", "n">>
        :> <<"i", "n", "f", "r", "a", "-", "r", "u", "n">>)
    @@ (<<".", "_", "-", "i", "n", "f", "r", "a", "_", "r", "u", "n">>
        :> <<"i", "n", "f", "r", "a", "-", "r", "u", "n">>)
    @@ (<<"9", "i", "n", "f", "r", "a", "-", "r", "u", "n">>
        :> <<"9", "i", "n", "f", "r", "a", "-", "r", "u", "n">>)
    @@ (<<"-", "i", "n", "f", "r", "a", ".", "r", "u", "n">>
        :> <<"i", "n", "f", "r", "a", "-", "r", "u", "n">>)
    @@ (<<"i", "n", "f", "r", "a", "*", "r", "u", "n">>
        :> <<"i", "n", "f", "r", "a", "-", "r", "u", "n">>)
    @@ (<<"i", "n", "f", "r", "a", "9", ".", "-", "f", "o", "o", "_", "b", "a", "r", "^", "x">>
        :> <<"i", "n", "f", "r", "a", "9", "-", "f", "o", "o", "-", "b", "a", "r", "-", "x">>)

ReloadBegins ==
    /\ ~InProgress(ticks["a1"][1])
    /\ ticks'["a1"][1].pc = "read"

\* What the steps of a tick do to the cache (the tick is the only one
\* running): a tick that begins with an expiration later than now changes
\* neither cache nor expiration, makes no read or create call, and is handed
\* the cached entries in cache order; a tick that begins otherwise clears the
\* cache, sets the expiration to now + 30 and reads the first name; a read
\* or a create that obtains the queue appends it to the cache; the names
\* are read in their order, and a reload that returns has read them all.
CacheSteps ==
    LET ag == agent["a1"]
        tk == ticks["a1"][1]
        ag2 == agent'["a1"]
        tk2 == ticks'["a1"][1]
        live == /\ ag.work_queue_cache_expiration # NoTime
                /\ ag.work_queue_cache_expiration > now
        obtained == Append(ag.work_queue_cache,
                        [name |-> ag.work_queues[tk.qi], is_paused |-> FALSE])
        obtained_paused == Append(ag.work_queue_cache,
                        [name |-> ag.work_queues[tk.qi], is_paused |-> TRUE])
    IN  /\ (~InProgress(tk) /\ tk2 # tk /\ ag.started /\ live) =>
               /\ tk2.pc \notin {"read", "create"}
               /\ ag2.work_queue_cache = ag.work_queue_cache
               /\ ag2.work_queue_cache_expiration
                      = ag.work_queue_cache_expiration
               /\ tk2.pc = "fetch" =>
                      /\ tk2.mode = "cached"
                      /\ tk2.queue = ag.work_queue_cache[tk2.qi - 1]
                      /\ \A i \in 1..(tk2.qi - 2) :
                             ag.work_queue_cache[i].is_paused
        /\ (~InProgress(tk) /\ tk2 # tk /\ ag.started /\ ~live) =>
               /\ ag2.work_queue_cache = << >>
               /\ ag2.work_queue_cache_expiration = now + CacheSeconds
               /\ tk2.pc = "read" /\ tk2.mode = "reload" /\ tk2.qi = 1
        /\ (/\ InProgress(tk) /\ tk.mode = "cached"
            /\ tk2 # tk /\ tk2.frozen = tk.frozen) =>
               /\ tk2.pc \notin {"read", "create"}
               /\ tk2.pc = "fetch" =>
                      /\ tk2.qi > tk.qi
                      /\ tk2.queue = CacheView(ag2, tk2)[tk2.qi - 1]
        /\ (tk.pc = "read" /\ tk2 # tk) =>
               \/ tk2.pc = "create" /\ tk2.qi = tk.qi
                     /\ ag2.work_queue_cache = ag.work_queue_cache
               \/ tk2.pc = "raised"
                     /\ ag2.work_queue_cache = ag.work_queue_cache
               \/ ag2.work_queue_cache = obtained
               \/ ag2.work_queue_cache = obtained_paused
        /\ (tk.pc = "create" /\ tk2 # tk) =>
               \/ ag2.work_queue_cache = ag.work_queue_cache
               \/ ag2.work_queue_cache = obtained
        /\ (InProgress(tk) /\ tk.mode = "reload" /\ tk2 # tk) =>
               /\ tk2.pc = "read" => tk2.qi = tk.qi + 1
               /\ tk2.pc = "returned" => tk.qi = Len(ag.work_queues)

LoggedCalls(call) == SelectSeq(hist.log["a1"], LAMBDA e : e.call = call)

\* The answers of the fetches one after another.
RECURSIVE Answers(_)
Answers(fetches) ==
    IF fetches = << >> THEN << >>
    ELSE Head(fetches).arg \o Answers(Tail(fetches))

\* s without the elements that occurred before in it.
RECURSIVE FirstOccurrences(_)
FirstOccurrences(s) ==
    IF s = << >> THEN << >>
    ELSE LET front == FirstOccurrences(SubSeq(s, 1, Len(s) - 1))
         IN  IF s[Len(s)] \in Range(front) THEN front
             ELSE Append(front, s[Len(s)])

\* C26: in the calls of one tick the queues fetched are in the order
\* get_work_queues yields them (the order of the cache, which is the order of
\* the configured names), every fetch comes before the first start_soon, the
\* runs handed to start_soon are in the order of the fetched lists put one
\* after another (queue by queue, each in the order the server gave, a run
\* only at its first occurrence), and the list returned is these lists put
\* one after another, returned last.
C26_TickOrder ==
    LET log == hist.log["a1"]
        fetches == LoggedCalls("get_runs_in_work_queue")
        spawns == LoggedCalls("start_soon")
        returns == LoggedCalls("return")
        names == [i \in DOMAIN fetches |-> fetches[i].queue]
        spawned == [i \in DOMAIN spawns |-> spawns[i].arg[1]]
        cache == agent["a1"].work_queue_cache
    IN  /\ IsSubsequence(names, agent["a1"].work_queues)
        /\ IsSubsequence(names, [i \in DOMAIN cache |-> cache[i].name])
        /\ \A i, j \in DOMAIN log :
               (i < j /\ log[j].call = "get_runs_in_work_queue") =>
                   log[i].call = "get_runs_in_work_queue"
        /\ spawned = SelectSeq(FirstOccurrences(Answers(fetches)),
                               LAMBDA r : r \in Range(spawned))
        /\ returns # << >> =>
               /\ Len(returns) = 1
               /\ log[Len(log)].call = "return"
               /\ returns[1].arg = Answers(fetches)
               /\ Range(returns[1].arg)
                      \subseteq agent["a1"].submitting_flow_run_ids

C26_Witness ==
    /\ Len(LoggedCalls("get_runs_in_work_queue")) = 2
    /\ LoggedCalls("get_runs_in_work_queue")[1].queue = "q1"
    /\ LoggedCalls("get_runs_in_work_queue")[1].arg = <<"r2", "r1">>
    /\ LoggedCalls("get_runs_in_work_queue")[2].arg = <<"r1", "r2">>
    /\ Len(LoggedCalls("start_soon")) = 2
    /\ LoggedCalls("start_soon")[1].arg = <<"r2">>
    /\ LoggedCalls("start_soon")[2].arg = <<"r1">>
    /\ LoggedCalls("return") # << >>
    /\ LoggedCalls("return")[1].arg = <<"r2", "r1", "r1", "r2">>

\* C27 as stated: a tick of a started agent computes scheduled_before as now
\* plus the prefetch_seconds given to the agent, whatever integer it is (0
\* included), or plus the setting when none was given, and uses this value in
\* every get_runs_in_work_queue call it makes.
C27_OverrideAlwaysUsed ==
    [][ LET ag == agent["a1"]
            tk == ticks["a1"][1]
            tk2 == ticks'["a1"][1]
        IN  /\ (~InProgress(tk) /\ InProgress(tk2)) =>
                   tk2.before = now +
                       (IF ag.prefetch_seconds = << >> THEN PrefetchSetting
                        ELSE ag.prefetch_seconds[1])
            /\ (InProgress(tk) /\ InProgress(tk2)) => tk2.before = tk.before
      ]_vars

\* C28 as stated: a step of a coordinator, whatever the answer that resumes
\* it (an error included), leaves the task group as it is, and with it every
\* other coordinator and every workload of the group.
C28_CoordinatorErrorStaysLocal ==
    [][\A c \in BagToSet(coords["a1"]) :
          Resumed("a1", c)
              => /\ agent'["a1"].task_group = agent["a1"].task_group
                 /\ \A d \in BagToSet(coords["a1"]) \ {c} :
                        CopiesIn(d, coords'["a1"]) >= CopiesIn(d, coords["a1"])
                 /\ \A w \in BagToSet(workloads["a1"]) :
                        CopiesIn(w, workloads'["a1"])
                            >= CopiesIn(w, workloads["a1"])]_vars

\* C29: at every moment the run of every live coordinator is in
\* submitting_flow_run_ids, and no coordinator that ends at the final remove
\* of submit_run (after its claim was refused, after the started handshake
\* or after reporting a failure) fails there with a KeyError, which would
\* crash the task group.
C29_LiveCoordinatorsInSet ==
    /\ [](\A c \in BagToSet(coords["a1"]) :
            c.run \in agent["a1"].submitting_flow_run_ids)
    /\ [][\A c \in BagToSet(coords["a1"]) :
            (Resumed("a1", c) /\ c.pc \in {"claim", "submit", "report"})
                => /\ agent'["a1"].task_group = agent["a1"].task_group
                   /\ Live("a1", c.run) = 1]_vars

\* Shutdown waits for the task group while a coordinator, whose run is in
\* the set, awaits the started handshake.
C29_Witness ==
    /\ life["a1"].shutdown = "wait_tg"
    /\ \E c \in BagToSet(coords["a1"]) :
         c.pc = "submit" /\ c.run \in agent["a1"].submitting_flow_run_ids

\* C30: a coordinator that awaits the answer to a Failed proposal has had
\* its own Pending proposal answered with Pending; it made the proposal on
\* leaving the await of the started handshake, and the answer ends it, so
\* that it proposes Failed once.
C30_FailedOnlyAfterOwnClaim ==
    /\ [](\A c \in BagToSet(coords["a1"]) :
            c.pc = "report" => c.claim = "PENDING")
    /\ [][/\ \A d \in BagToSet(coords'["a1"]) :
               (/\ d.pc = "report"
                /\ CopiesIn(d, coords'["a1"]) > CopiesIn(d, coords["a1"]))
                   => \E c \in BagToSet(coords["a1"]) :
                        /\ c.run = d.run /\ c.pc = "submit"
                        /\ c.claim = "PENDING"
                        /\ CopiesIn(c, coords'["a1"])
                               < CopiesIn(c, coords["a1"])
          /\ \A c \in BagToSet(coords["a1"]) :
               (c.pc = "report" /\ Resumed("a1", c))
                   => coords'["a1"] = coords["a1"] (-) One(c)]_vars

\* A coordinator whose claim was accepted awaits the answer to its Failed
\* proposal.
C30_Witness ==
    \E c \in BagToSet(coords["a1"]) :
        /\ c.pc = "report" /\ c.claim = "PENDING"
        /\ server[c.run] = "PENDING"
        /\ c.proposal.type = "FAILED"

\* C31 (as claimed): once shutdown has returned, and until start is called
\* again, submitting_flow_run_ids is empty and no coordinator is spawned,
\* whatever a tick that was suspended in a server call when shutdown began
\* does when it is resumed.
C31_NothingLeftAfterShutdown ==
    /\ [](agent["a1"].task_group = None =>
            agent["a1"].submitting_flow_run_ids = {})
    /\ [][agent["a1"].task_group = None =>
            \A r \in Runs : LiveNext("a1", r) <= Live("a1", r)]_vars

\* C32 (as claimed): a tick that read the work-queue cache as live has, when
\* it ends, yielded every queue the reload of that cache obtains, each
\* exactly once, also when it overlaps the reload.
C32_CachedTickYieldsWholeReload ==
    \A u \in TickIds :
        LET y == hist.yields["a1"][u]
        IN  (/\ y.view = "cached"
             /\ ~InProgress(ticks["a1"][u])
             /\ y.expiration = agent["a1"].work_queue_cache_expiration)
              => /\ Range(y.names) = CachedNames(agent["a1"].work_queue_cache)
                 /\ \A i, j \in DOMAIN y.names :
                        y.names[i] = y.names[j] => i = j
====
